---------------------------- MODULE Spec2Model ----------------------------
(***************************************************************************)
(* A model of the CONNECT tunnel engine of lstoll/netrelay:                *)
(*   - the server handshakes (unified dispatch, HTTP/1.1, HTTP/2),         *)
(*   - the bidirectional copy engine started by a handshake,               *)
(*   - the client dialers (HTTP/1.1, HTTP/2, h2c).                         *)
(* One CONNECT exchange is modelled: either a raw peer sends an arbitrary  *)
(* request to a handler, or a client dialer's DialContext talks to the     *)
(* handler.  Callbacks, the dial function, the response writer's           *)
(* capabilities and the transport are the environment: their results are   *)
(* chosen nondeterministically.                                            *)
(***************************************************************************)
EXTENDS Integers, Sequences, FiniteSets, TLC

VARIABLES
    cfg,     \* ServerConfig/ClientConfig and the handler kind in use
    req,     \* the request the handler serves (None before it arrives)
    srv,     \* the server handshake: its position and what it did
    conns,   \* the server's two endpoints: upstream and the client side
    tun,     \* the copy engine (tunnel) started by the handshake
    cli,     \* the client's DialContext call
    wire,    \* the response head delivered from the proxy to the client
    relay,   \* the bytes of open tunnels, from the client through the proxy
             \* to the targets and back
    ep,      \* one Tunnel Endpoint a dialer returned, and its resources
    chain,   \* a DialContext call of a dialer whose dial function is
             \* another dialer's DialContext
    dcfg     \* a dialer, the caller's ClientConfig objects it refers to,
             \* and concurrent DialContext calls on it

vars == <<cfg, req, srv, conns, tun, cli, wire, relay, ep, chain, dcfg>>

----------------------------------------------------------------------------
\* Bounds of the model.

\* Protocol major versions a request may carry: 1..MaxProtoMajor.
MaxProtoMajor == 3

----------------------------------------------------------------------------
\* Program constants (net/http status codes as the handlers use them).

StatusOK == 200
StatusBadRequest == 400
StatusForbidden == 403
StatusMethodNotAllowed == 405
StatusInternalServerError == 500
StatusBadGateway == 502
StatusHTTPVersionNotSupported == 505

MethodConnect == "CONNECT"

\* errCh := make(chan error, 2)
ErrChCap == 2

None == [none |-> TRUE]

\* The status line net/http produces for a code (http.StatusText), and the
\* literal line the HTTP/1.1 handshake writes on the hijacked socket.
StatusLine(code, hijacked) ==
    CASE code = StatusOK /\ hijacked -> "200 Connection Established"
      [] code = StatusOK -> "200 OK"
      [] code = StatusBadRequest -> "400 Bad Request"
      [] code = StatusForbidden -> "403 Forbidden"
      [] code = StatusMethodNotAllowed -> "405 Method Not Allowed"
      [] code = StatusInternalServerError -> "500 Internal Server Error"
      [] code = StatusBadGateway -> "502 Bad Gateway"
      [] code = StatusHTTPVersionNotSupported -> "505 HTTP Version Not Supported"
      [] OTHER -> "unknown"

----------------------------------------------------------------------------
\* Input domains.

Methods == {"CONNECT", "GET", "POST"}
ProtoMajors == 1..MaxProtoMajor
RequestURIs == {"", "/", "a:1"}
Hosts == {"", "a:1"}
Addresses == {"a:1", "b:2"}
HandlerKinds == {"unified", "h1", "h2"}

\* Network names, as character sequences so that strings.HasPrefix is computed.
NetTcp == <<"t", "c", "p">>
NetTcp4 == <<"t", "c", "p", "4">>
NetTcp6 == <<"t", "c", "p", "6">>
NetTcpx == <<"t", "c", "p", "x">>
NetUdp == <<"u", "d", "p">>
NetUnix == <<"u", "n", "i", "x">>
NetEmpty == <<>>
Networks == {NetTcp, NetTcp4, NetTcp6, NetTcpx, NetUdp, NetUnix, NetEmpty}

----------------------------------------------------------------------------
\* Server handshake: validation and routing (pure parts).

\* A variant of the checks below with the target examined before the method.
H1ValidateTargetFirst(r) ==
    IF r.RequestURI = "" \/ r.RequestURI = "/" THEN StatusBadRequest
    ELSE IF r.Method # MethodConnect THEN StatusMethodNotAllowed
    ELSE 0

\* h1Handler.ServeHTTP, the checks before the authorization callback:
\* the rejection status, or 0 when the request passes.
H1Validate(r) ==
    IF r.Method # MethodConnect THEN StatusMethodNotAllowed
    ELSE IF r.RequestURI = "" \/ r.RequestURI = "/" THEN StatusBadRequest
    ELSE 0

\* A variant of the checks below with the method examined before the protocol.
FlippedH2Validate(r) ==
    IF r.Method # MethodConnect THEN StatusMethodNotAllowed
    ELSE IF r.ProtoMajor # 2 THEN StatusHTTPVersionNotSupported
    ELSE IF r.Host = "" THEN StatusBadRequest
    ELSE 0

\* h2Handler.ServeHTTP, the checks before the authorization callback.
H2Validate(r) ==
    IF r.ProtoMajor # 2 THEN StatusHTTPVersionNotSupported
    ELSE IF r.Method # MethodConnect THEN StatusMethodNotAllowed
    ELSE IF r.Host = "" THEN StatusBadRequest
    ELSE 0

\* A routing that sends only major version 1 to the HTTP/1.1 handshake.
SpecUnifiedRoute(r) ==
    IF r.Method # MethodConnect THEN "reject"
    ELSE IF r.ProtoMajor = 1 THEN "h1" ELSE "h2"

\* unifiedHandler.ServeHTTP: "reject" for a non-CONNECT request, else the
\* handshake the request is delegated to.
UnifiedRoute(r) ==
    IF r.Method # MethodConnect THEN "reject"
    ELSE IF r.ProtoMajor = 2 THEN "h2" ELSE "h1"

\* The handshake a handler of kind k runs for request r.
Route(k, r) == IF k = "unified" THEN UnifiedRoute(r) ELSE k

\* The target the routed handshake extracts from the request.
Target(route, r) == IF route = "h1" THEN r.RequestURI ELSE r.Host

\* The status the validation of the routed handshake answers (0: passes).
Validate(route, r) ==
    CASE route = "reject" -> StatusMethodNotAllowed
      [] route = "h1" -> H1Validate(r)
      [] route = "h2" -> H2Validate(r)

----------------------------------------------------------------------------
\* The copy engine's state before a tunnel is started, and as tunnel() sets
\* it up: its two copy tasks, the completion channel errCh, the engine's own
\* position, and what it logged.
IdleTask ==
    [pc |-> "idle", er |-> "nil", wres |-> "none", result |-> "nil",
     short |-> FALSE, sent |-> 0]

NoTunnel ==
    [started |-> FALSE, route |-> "none", ctx |-> "none", flusher |-> FALSE,
     c2u |-> IdleTask, u2c |-> IdleTask, errCh |-> <<>>,
     eng |-> "idle", logged |-> <<>>, panicked |-> FALSE]

\* go h.tunnel(context.Background(), client, upstream)  (HTTP/1.1), or
\* h.tunnel(req.Context(), req.Body, w, upstream)       (HTTP/2).
StartTunnel(route, ctx, flusher) ==
    [started |-> TRUE, route |-> route, ctx |-> ctx, flusher |-> flusher,
     c2u |-> [IdleTask EXCEPT !.pc = "read"],
     u2c |-> [IdleTask EXCEPT !.pc = "read"],
     errCh |-> <<>>, eng |-> "select", logged |-> <<>>, panicked |-> FALSE]

----------------------------------------------------------------------------
\* Errors, as the client dialers build them.  An error value has a type,
\* the fields of a ProxyError, and the errors it wraps (fmt.Errorf's %w).

NilErr == [type |-> "nil", code |-> 0, status |-> "", wraps |-> <<>>]

\* var ErrProxyConnect = errors.New("connecttunnel: proxy connection failed")
ErrProxyConnect ==
    [type |-> "ErrProxyConnect", code |-> 0, status |-> "", wraps |-> <<>>]

\* An error of the environment (a refused connection, a reset stream).
IOErr == [type |-> "io", code |-> 0, status |-> "", wraps |-> <<>>]

\* &ProxyError{StatusCode: code, Status: status}
ProxyError(code, status) ==
    [type |-> "ProxyError", code |-> code, status |-> status, wraps |-> <<>>]

\* fmt.Errorf("connecttunnel: unsupported network: %s", network)
UnsupportedNetworkErr ==
    [type |-> "errorString", code |-> 0, status |-> "", wraps |-> <<>>]

\* A wrapping with two %w verbs, which would expose err to errors.Is too.
ErrorfWrapsBoth(err) ==
    [type |-> "wrapError", code |-> 0, status |-> "",
     wraps |-> <<ErrProxyConnect, err>>]

\* fmt.Errorf("%w: %v", ErrProxyConnect, err): wraps ErrProxyConnect and
\* only prints err.
ProxyConnectErrorf(err) ==
    [type |-> "wrapError", code |-> 0, status |-> "",
     wraps |-> <<ErrProxyConnect>>]

\* errors.Is(err, target): err equals target, or err's Is method accepts it
\* ((*ProxyError).Is accepts every *ProxyError), or an error err wraps does.
RECURSIVE ErrorsIs(_, _)
ErrorsIs(err, target) ==
    \/ err = target
    \/ err.type = "ProxyError" /\ target.type = "ProxyError"
    \/ \E i \in 1..Len(err.wraps) : ErrorsIs(err.wraps[i], target)

IsProxyError(err) == ErrorsIs(err, ProxyError(0, ""))
IsProxyConnect(err) == ErrorsIs(err, ErrProxyConnect)

\* The errors the dial function or the HTTP/2 transport may fail with: an
\* I/O error, or, when the dial function is another dialer's DialContext
\* (chaining), that dialer's ProxyError or wrapped ErrProxyConnect.
DialErrs ==
    {IOErr, ProxyError(StatusForbidden, "403 Forbidden"),
     ProxyConnectErrorf(IOErr)}

\* strings.HasPrefix(s, prefix)
HasPrefix(s, prefix) ==
    Len(s) >= Len(prefix) /\ SubSeq(s, 1, Len(prefix)) = prefix

\* A DialContext call before it starts.
IdleClient ==
    [pc |-> "idle", dialer |-> "none", headerFunc |-> "nil",
     network |-> <<>>, address |-> "",
     dialCalls |-> 0, requests |-> 0,
     conn |-> "none", pr |-> "none", pw |-> "none", body |-> "none",
     resp |-> None, failure |-> "none",
     result |-> [conn |-> "nil", remoteAddr |-> "", network |-> "",
                 err |-> NilErr],
     handled |-> FALSE, localStatus |-> <<>>]

----------------------------------------------------------------------------
\* Initial state: nothing has happened; the server configuration is any.

\* The server before a request: nothing validated, answered or dialled.
IdleServer ==
    [pc |-> "idle", route |-> "none", target |-> "",
     statuses |-> <<>>, authCalls |-> 0, authErr |-> FALSE,
     dialCalls |-> 0, dialTargets |-> <<>>, dialErr |-> FALSE,
     capCalls |-> 0, capErr |-> FALSE, respErr |-> FALSE,
     reqCtxDone |-> FALSE]

\* The objects of a dialer's configuration and of the DialContext calls on
\* it, at most NumCalls of them running at once.
NumCalls == 2

Calls == 1..NumCalls

\* The server name a dialer defaults to: the proxy URL's host name.
ProxyHostName == "proxy.example.com"

ObjIds == [o : 0..NumCalls, k : {"tls", "hdr"}]
CfgTLS == [o |-> 0, k |-> "tls"]
CfgHeader == [o |-> 0, k |-> "hdr"]
Own(c, k) == [o |-> c, k |-> k]
\* A reference to no object.
NoObj == [o |-> 0, k |-> "none"]

\* A dialer built from a ClientConfig: its kind, whether its proxy URL is
\* https, and the caller's objects it keeps references to.
NewDialer(kind, useTLS, tlsConfig, header) ==
    [kind |-> kind, useTLS |-> useTLS,
     given |-> [tls |-> tlsConfig, hdr |-> header],
     objs |-> [id \in ObjIds |->
                 IF id = CfgTLS THEN tlsConfig
                 ELSE IF id = CfgHeader THEN header ELSE "absent"],
     calls |-> [c \in Calls |-> [pc |-> "idle", tls |-> NoObj,
                                 hdr |-> NoObj]],
     writes |-> {}]

NoDialer == NewDialer("none", FALSE, "absent", "absent")

\* No chained dial has been made.
NoChain ==
    [pc |-> "idle", kindA |-> "none", kindB |-> "none",
     cfgDial |-> "nil", dial |-> "none",
     network |-> <<>>, target |-> "", conn |-> <<>>,
     seenA |-> <<>>, seenB |-> <<>>, respA |-> 0, respB |-> 0,
     result |-> [conn |-> <<>>, err |-> NilErr], msgs |-> <<>>]

\* The server's two endpoints before they exist.
NoConns ==
    [upstream |-> "none", upstreamCloses |-> 0,
     upstreamIsTCP |-> FALSE, upstreamWriteClosed |-> FALSE,
     client |-> "none", clientCloses |-> 0,
     clientIsTCP |-> FALSE, clientWriteClosed |-> FALSE]

\* No tunnel carries bytes, and no endpoint is under study.
NoRelay == [kind |-> "none"]
NoEndpoint == [kind |-> "none"]

Init ==
    /\ cfg \in [handler : HandlerKinds, OnTunnel : {"nil", "set"}]
    /\ req = None
    /\ srv = IdleServer
    /\ conns = NoConns
    /\ tun = NoTunnel
    /\ cli = IdleClient
    /\ wire = None
    /\ relay = NoRelay
    /\ ep = NoEndpoint
    /\ chain = NoChain
    /\ dcfg = NoDialer

----------------------------------------------------------------------------
\* Server handshake steps.

\* The response head the peer receives for a status written through the
\* response writer (http.Error, WriteHeader).
Response(code) == [code |-> code, status |-> StatusLine(code, FALSE)]

\* http.Error(w, ..., code); return
HttpError(s, code) ==
    [s EXCEPT !.statuses = Append(@, code), !.pc = "returned"]

\* What the peer has received once a step took the handshake from s to t:
\* the head of the status the step wrote through the response writer, if any.
Delivered(s, t, w) ==
    IF Len(t.statuses) > Len(s.statuses) /\ t.pc = "returned" /\ ~t.respErr
    THEN Response(t.statuses[Len(t.statuses)])
    ELSE w

\* upstream.Close()
CloseUpstream(c) ==
    [c EXCEPT !.upstream = "closed", !.upstreamCloses = @ + 1]

\* client.Close() (the hijacked socket) or reqBody.Close()
CloseClient(c) ==
    [c EXCEPT !.client = "closed", !.clientCloses = @ + 1]

\* A peer other than the dialers sends any request to the handler.
RawRequest ==
    /\ req = None /\ cli.pc = "idle"
    /\ \E m \in Methods, p \in ProtoMajors, u \in RequestURIs, h \in Hosts :
          req' = [origin |-> "raw", Method |-> m, ProtoMajor |-> p,
                  RequestURI |-> u, Host |-> h]
    /\ UNCHANGED <<dcfg, chain, relay, ep, cfg, srv, conns, tun, cli, wire>>

\* A variant that goes on to the authorization callback without the checks.
AfterValidateSkipsChecks(s, route, r) ==
    [s EXCEPT !.route = route, !.pc = "auth", !.target = Target(route, r)]

\* ServeHTTP up to the authorization callback: method, protocol and target
\* checks of the handler the request reaches.
AfterValidate(s, route, r) ==
    LET code == Validate(route, r)
        s1 == [s EXCEPT !.route = route]
    IN IF code # 0
       THEN HttpError(s1, code)
       ELSE [s1 EXCEPT !.pc = "auth", !.target = Target(route, r)]

ServeHTTP ==
    /\ req # None /\ srv.pc = "idle"
    /\ srv' = AfterValidate(srv, Route(cfg.handler, req), req)
    /\ wire' = Delivered(srv, srv', wire)
    /\ conns' = IF srv'.pc = "auth" /\ srv'.route = "h2"
                THEN [conns EXCEPT !.client = "open"]
                ELSE conns
    /\ UNCHANGED <<dcfg, chain, relay, ep, cfg, req, tun, cli>>

\* A handshake that ignores the callback's error and goes on to dial.
CheckTunnelContinues(s, called, err) ==
    [s EXCEPT !.authCalls = IF called THEN @ + 1 ELSE @,
              !.authErr = err, !.pc = "dial"]

\* if err := h.cfg.checkTunnel(req.Context(), req); err != nil { 403; return }
\* called: OnTunnel is configured and was invoked; err: what it returned.
AfterCheckTunnel(s, called, err) ==
    LET s1 == [s EXCEPT !.authCalls = IF called THEN @ + 1 ELSE @,
                        !.authErr = err]
    IN IF err THEN HttpError(s1, StatusForbidden) ELSE [s1 EXCEPT !.pc = "dial"]

CheckTunnel ==
    /\ srv.pc = "auth"
    /\ \E err \in (IF cfg.OnTunnel = "nil" THEN {FALSE} ELSE BOOLEAN) :
          srv' = AfterCheckTunnel(srv, cfg.OnTunnel # "nil", err)
    /\ wire' = Delivered(srv, srv', wire)
    /\ UNCHANGED <<dcfg, chain, relay, ep, cfg, req, conns, tun, cli>>

\* A handshake that goes from the dial straight to writing the 200.
DialSkipsCapability(s, err) ==
    LET s1 == [s EXCEPT !.dialCalls = @ + 1,
                        !.dialTargets = Append(@, s.target),
                        !.dialErr = err]
    IN IF err THEN HttpError(s1, StatusBadGateway)
       ELSE [s1 EXCEPT !.pc = IF s.route = "h1" THEN "write200"
                              ELSE "writeheader"]

\* A handshake that ignores the dial error and goes on.
DialContinues(s, err) ==
    [s EXCEPT !.dialCalls = @ + 1, !.dialTargets = Append(@, s.target),
              !.dialErr = err, !.pc = "capability"]

\* upstream, err := dial(req.Context(), "tcp", target); on error 502; return
AfterDial(s, err) ==
    LET s1 == [s EXCEPT !.dialCalls = @ + 1,
                        !.dialTargets = Append(@, s.target),
                        !.dialErr = err]
    IN IF err THEN HttpError(s1, StatusBadGateway)
       ELSE [s1 EXCEPT !.pc = "capability"]

DialUpstream ==
    /\ srv.pc = "dial"
    /\ \E err \in BOOLEAN, tcp \in BOOLEAN :
          /\ srv' = AfterDial(srv, err)
          /\ conns' = IF err \/ srv'.pc # "capability" THEN conns
                      ELSE [conns EXCEPT !.upstream = "open",
                                         !.upstreamIsTCP = tcp]
    /\ wire' = Delivered(srv, srv', wire)
    /\ UNCHANGED <<dcfg, chain, relay, ep, cfg, req, tun, cli>>

\* The request's context is cancelled (the peer went away, or the server
\* finished the exchange).
CancelRequestContext ==
    /\ req # None /\ ~srv.reqCtxDone
    /\ srv' = [srv EXCEPT !.reqCtxDone = TRUE]
    /\ UNCHANGED <<dcfg, chain, relay, ep, cfg, req, conns, tun, cli, wire>>

\* A failure path that leaves the upstream connection open.
CapabilityLeaksUpstream(c, ok) == c

\* The capability step failed (hijack unsupported or failing, full-duplex
\* failing): upstream.Close(); 500; return.
AfterCapabilityConns(c, ok) == IF ok THEN c ELSE CloseUpstream(c)

AfterCapability(s, ok, nextPc) ==
    LET s1 == [s EXCEPT !.capCalls = @ + 1, !.capErr = ~ok]
    IN IF ok THEN [s1 EXCEPT !.pc = nextPc]
       ELSE HttpError(s1, StatusInternalServerError)

\* HTTP/1.1: w.(http.Hijacker) and hijacker.Hijack().
H1Hijack ==
    /\ srv.pc = "capability" /\ srv.route = "h1"
    /\ \E cap \in {"ok", "unsupported", "error"}, tcp \in BOOLEAN :
          /\ srv' = AfterCapability(srv, cap = "ok", "write200")
          /\ conns' = IF cap = "ok"
                      THEN [conns EXCEPT !.client = "open", !.clientIsTCP = tcp]
                      ELSE AfterCapabilityConns(conns, FALSE)
    /\ wire' = Delivered(srv, srv', wire)
    /\ UNCHANGED <<dcfg, chain, relay, ep, cfg, req, tun, cli>>

\* A failure path that would answer 500 after the failed 200.
ResponseFailed500(s) ==
    HttpError([s EXCEPT !.respErr = TRUE], StatusInternalServerError)

\* The 200 could not be written or flushed: close what is open and return,
\* writing nothing more.
ResponseFailed(s) == [s EXCEPT !.respErr = TRUE, !.pc = "returned"]

\* HTTP/1.1: bufrw.WriteString("HTTP/1.1 200 Connection Established\r\n\r\n")
H1Write200 ==
    /\ srv.pc = "write200"
    /\ \E err \in BOOLEAN :
          IF err
          THEN /\ conns' = CloseUpstream(CloseClient(conns))
               /\ srv' = ResponseFailed(srv)
          ELSE /\ srv' = [srv EXCEPT !.statuses = Append(@, StatusOK),
                                     !.pc = "flush200"]
               /\ UNCHANGED conns
    /\ UNCHANGED <<dcfg, chain, relay, ep, cfg, req, tun, cli, wire>>

\* A variant that runs the HTTP/1.1 tunnel under the request's context.
H1TunnelRequestContext == "request"

\* The context the HTTP/1.1 tunnel runs under: context.Background().
H1TunnelContext == "background"

\* A variant that closes only the client socket when the flush fails.
H1Flush200LeaksUpstream ==
    /\ srv.pc = "flush200"
    /\ \E err \in BOOLEAN :
          IF err
          THEN /\ conns' = CloseClient(conns)
               /\ srv' = ResponseFailed(srv)
               /\ UNCHANGED <<dcfg, chain, relay, ep, tun, wire>>
          ELSE /\ wire' = [code |-> StatusOK,
                           status |-> StatusLine(StatusOK, TRUE)]
               /\ tun' = StartTunnel("h1", H1TunnelContext, FALSE)
               /\ srv' = [srv EXCEPT !.pc = "returned"]
               /\ UNCHANGED conns
    /\ UNCHANGED <<dcfg, chain, relay, ep, cfg, req, cli>>

\* HTTP/1.1: bufrw.Flush(), then go h.tunnel(context.Background(), ...) and
\* ServeHTTP returns.
H1Flush200 ==
    /\ srv.pc = "flush200"
    /\ \E err \in BOOLEAN :
          IF err
          THEN /\ conns' = CloseUpstream(CloseClient(conns))
               /\ srv' = ResponseFailed(srv)
               /\ UNCHANGED <<dcfg, chain, relay, ep, tun, wire>>
          ELSE /\ wire' = [code |-> StatusOK,
                           status |-> StatusLine(StatusOK, TRUE)]
               /\ tun' = StartTunnel("h1", H1TunnelContext, FALSE)
               /\ srv' = [srv EXCEPT !.pc = "returned"]
               /\ UNCHANGED conns
    /\ UNCHANGED <<dcfg, chain, relay, ep, cfg, req, cli>>

\* HTTP/2: http.NewResponseController(w).EnableFullDuplex()
H2EnableFullDuplex ==
    /\ srv.pc = "capability" /\ srv.route = "h2"
    /\ \E err \in BOOLEAN :
          /\ srv' = AfterCapability(srv, ~err, "writeheader")
          /\ conns' = AfterCapabilityConns(conns, ~err)
    /\ wire' = Delivered(srv, srv', wire)
    /\ UNCHANGED <<dcfg, chain, relay, ep, cfg, req, tun, cli>>

\* A variant that starts the HTTP/2 tunnel in the background and returns.
H2TunnelInBackground ==
    /\ srv.pc = "writeheader"
    /\ \E err \in BOOLEAN :
          IF err
          THEN /\ conns' = CloseUpstream(conns)
               /\ srv' = ResponseFailed([srv EXCEPT
                                          !.statuses = Append(@, StatusOK)])
               /\ UNCHANGED <<dcfg, chain, relay, ep, tun, wire>>
          ELSE /\ wire' = Response(StatusOK)
               /\ \E flusher \in BOOLEAN :
                     tun' = StartTunnel("h2", "request", flusher)
               /\ srv' = [srv EXCEPT !.statuses = Append(@, StatusOK),
                                     !.pc = "returned"]
               /\ UNCHANGED conns
    /\ UNCHANGED <<dcfg, chain, relay, ep, cfg, req, cli>>

\* A variant that starts the tunnel although the flush of the header failed.
H2FlushFailureIgnored ==
    /\ srv.pc = "writeheader"
    /\ \E err \in BOOLEAN :
          /\ wire' = IF err THEN wire ELSE Response(StatusOK)
          /\ \E flusher \in BOOLEAN :
                tun' = StartTunnel("h2", "request", flusher)
          /\ srv' = [srv EXCEPT !.statuses = Append(@, StatusOK),
                                !.respErr = err, !.pc = "tunnel"]
          /\ UNCHANGED conns
    /\ UNCHANGED <<dcfg, chain, relay, ep, cfg, req, cli>>

\* HTTP/2: w.WriteHeader(http.StatusOK); rc.Flush(); then h.tunnel(...) inside
\* the handler.
H2WriteHeaderFlush ==
    /\ srv.pc = "writeheader"
    /\ \E err \in BOOLEAN :
          IF err
          THEN /\ conns' = CloseUpstream(conns)
               /\ srv' = ResponseFailed([srv EXCEPT
                                          !.statuses = Append(@, StatusOK)])
               /\ UNCHANGED <<dcfg, chain, relay, ep, tun, wire>>
          ELSE /\ wire' = Response(StatusOK)
               /\ \E flusher \in BOOLEAN :
                     tun' = StartTunnel("h2", "request", flusher)
               /\ srv' = [srv EXCEPT !.statuses = Append(@, StatusOK),
                                     !.pc = "tunnel"]
               /\ UNCHANGED conns
    /\ UNCHANGED <<dcfg, chain, relay, ep, cfg, req, cli>>

----------------------------------------------------------------------------
\* The copy engine: h1Handler.tunnel and h2Handler.tunnel.

\* What a Read on an endpoint may return: bytes or none, with no error, EOF
\* or an error.  A closed endpoint only fails.  (0 bytes and no error makes
\* the loops read again and is left out.)
ReadOutcomes(state) ==
    IF state = "open"
    THEN {[data |-> TRUE, er |-> "nil"], [data |-> TRUE, er |-> "EOF"],
          [data |-> TRUE, er |-> "read error"],
          [data |-> FALSE, er |-> "EOF"], [data |-> FALSE, er |-> "read error"]}
    ELSE {[data |-> FALSE, er |-> "read error"]}

\* What a Write on an endpoint may return: all bytes written, fewer bytes
\* and no error, or an error.  A closed or write-closed endpoint only fails.
WriteOutcomes(state, writeClosed) ==
    IF state = "open" /\ ~writeClosed THEN {"ok", "short", "err"} ELSE {"err"}

\* The task's state after a Read returned outcome o (io.Copy's loop, and the
\* HTTP/2 loop): bytes go to the write step; without bytes the task ends,
\* with nil for EOF when eofIsNil (io.Copy) and with the error itself else.
AfterRead(t, o, eofIsNil, endPc) ==
    IF o.data
    THEN [t EXCEPT !.pc = "write", !.er = o.er]
    ELSE [t EXCEPT !.pc = endPc,
                   !.result = IF eofIsNil /\ o.er = "EOF" THEN "nil" ELSE o.er]

\* A variant that takes a short write without an error for a full one.
AfterWriteIgnoresShort(t, w, eofIsNil, endPc) ==
    CASE w = "err" -> [t EXCEPT !.pc = endPc, !.result = "write error"]
      [] w \in {"ok", "short"} /\ t.er = "nil" -> [t EXCEPT !.pc = "read"]
      [] OTHER -> [t EXCEPT !.pc = endPc,
                     !.result = IF eofIsNil /\ t.er = "EOF" THEN "nil" ELSE t.er]

\* The task's state after the write of a chunk returned w: a write error
\* or a short write ends the task; else the read's own error, if any, ends
\* it; else it reads again.
AfterWrite(t, w, eofIsNil, endPc) ==
    CASE w = "err" -> [t EXCEPT !.pc = endPc, !.result = "write error"]
      [] w = "short" -> [t EXCEPT !.pc = endPc, !.result = "short write"]
      [] w = "ok" /\ t.er = "nil" -> [t EXCEPT !.pc = "read"]
      [] OTHER -> [t EXCEPT !.pc = endPc,
                     !.result = IF eofIsNil /\ t.er = "EOF" THEN "nil" ELSE t.er]

\* Client to upstream, io.Copy(upstream, client) or io.Copy(upstream, reqBody):
\* the read.
C2URead ==
    /\ tun.c2u.pc = "read"
    /\ \E o \in ReadOutcomes(conns.client) :
          tun' = [tun EXCEPT !.c2u = AfterRead(@, o, TRUE, "closewrite")]
    /\ UNCHANGED <<dcfg, chain, relay, ep, cfg, req, srv, conns, cli, wire>>

\* Client to upstream: the write of the chunk to upstream.
C2UWrite ==
    /\ tun.c2u.pc = "write"
    /\ \E w \in WriteOutcomes(conns.upstream, conns.upstreamWriteClosed) :
          tun' = [tun EXCEPT !.c2u =
                     AfterWrite([@ EXCEPT !.short = (w = "short")], w, TRUE,
                                "closewrite")]
    /\ UNCHANGED <<dcfg, chain, relay, ep, cfg, req, srv, conns, cli, wire>>

\* A variant that closes upstream entirely once the client side has ended.
C2UCloseAll ==
    /\ tun.c2u.pc = "closewrite"
    /\ tun' = [tun EXCEPT !.c2u.pc = "send"]
    /\ conns' = CloseUpstream(conns)
    /\ UNCHANGED <<dcfg, chain, relay, ep, cfg, req, srv, cli, wire>>

\* Client to upstream: after io.Copy, CloseWrite on upstream when it is a
\* *net.TCPConn.
C2UCloseWrite ==
    /\ tun.c2u.pc = "closewrite"
    /\ tun' = [tun EXCEPT !.c2u.pc = "send"]
    /\ conns' = IF conns.upstreamIsTCP /\ conns.upstream = "open"
                THEN [conns EXCEPT !.upstreamWriteClosed = TRUE]
                ELSE conns
    /\ UNCHANGED <<dcfg, chain, relay, ep, cfg, req, srv, cli, wire>>

\* errCh <- err  (errCh has capacity 2)
C2USend ==
    /\ tun.c2u.pc = "send"
    /\ Len(tun.errCh) < ErrChCap
    /\ tun' = [tun EXCEPT !.errCh = Append(@, tun.c2u.result),
                          !.c2u.sent = @ + 1,
                          !.c2u.pc = "done"]
    /\ UNCHANGED <<dcfg, chain, relay, ep, cfg, req, srv, conns, cli, wire>>

\* Upstream to client: the read from upstream (io.Copy(client, upstream) on
\* HTTP/1.1, upstream.Read(buf) in the HTTP/2 loop, which reports EOF as is).
U2CRead ==
    /\ tun.u2c.pc = "read"
    /\ \E o \in ReadOutcomes(conns.upstream) :
          tun' = [tun EXCEPT !.u2c =
                     IF tun.route = "h1"
                     THEN AfterRead(@, o, TRUE, "closewrite")
                     ELSE AfterRead(@, o, FALSE, "send")]
    /\ UNCHANGED <<dcfg, chain, relay, ep, cfg, req, srv, conns, cli, wire>>

\* Upstream to client, HTTP/1.1: the write of the chunk to the hijacked socket.
H1U2CWrite ==
    /\ tun.route = "h1" /\ tun.u2c.pc = "write"
    /\ \E w \in WriteOutcomes(conns.client, conns.clientWriteClosed) :
          tun' = [tun EXCEPT !.u2c =
                     AfterWrite([@ EXCEPT !.short = (w = "short")], w, TRUE,
                                "closewrite")]
    /\ UNCHANGED <<dcfg, chain, relay, ep, cfg, req, srv, conns, cli, wire>>

\* Upstream to client, HTTP/1.1: CloseWrite on the client socket when it is
\* a *net.TCPConn.
H1U2CCloseWrite ==
    /\ tun.route = "h1" /\ tun.u2c.pc = "closewrite"
    /\ tun' = [tun EXCEPT !.u2c.pc = "send"]
    /\ conns' = IF conns.clientIsTCP /\ conns.client = "open"
                THEN [conns EXCEPT !.clientWriteClosed = TRUE]
                ELSE conns
    /\ UNCHANGED <<dcfg, chain, relay, ep, cfg, req, srv, cli, wire>>

\* A variant whose loop goes on after sending its result.
U2CSendContinues ==
    /\ tun.u2c.pc = "send"
    /\ Len(tun.errCh) < ErrChCap
    /\ tun' = [tun EXCEPT !.errCh = Append(@, tun.u2c.result),
                          !.u2c.sent = @ + 1,
                          !.u2c.pc = IF tun.u2c.sent = 0 THEN "read"
                                    ELSE "done"]
    /\ UNCHANGED <<dcfg, chain, relay, ep, cfg, req, srv, conns, cli, wire>>

\* Upstream to client: errCh <- result
U2CSend ==
    /\ tun.u2c.pc = "send"
    /\ Len(tun.errCh) < ErrChCap
    /\ tun' = [tun EXCEPT !.errCh = Append(@, tun.u2c.result),
                          !.u2c.sent = @ + 1,
                          !.u2c.pc = "done"]
    /\ UNCHANGED <<dcfg, chain, relay, ep, cfg, req, srv, conns, cli, wire>>

\* Upstream to client, HTTP/2: w.Write(buf[0:nr]).  The HTTP/2 response
\* writer panics when written to after its handler has returned.
H2U2CWrite ==
    /\ tun.route = "h2" /\ tun.u2c.pc = "write"
    /\ IF srv.pc = "returned"
       THEN tun' = [tun EXCEPT !.u2c.pc = "panicked", !.panicked = TRUE]
       ELSE \E w \in {"ok", "short", "err"} :
              tun' = [tun EXCEPT !.u2c =
                         IF tun.flusher
                         THEN [@ EXCEPT !.pc = "flush", !.wres = w,
                                        !.short = (w = "short")]
                         ELSE AfterWrite([@ EXCEPT !.short = (w = "short")],
                                         w, FALSE, "send")]
    /\ UNCHANGED <<dcfg, chain, relay, ep, cfg, req, srv, conns, cli, wire>>

\* Upstream to client, HTTP/2: flusher.Flush() after the write, then the
\* checks of the write's result and of the read's error.  Flush returns
\* nothing; after the handler returned it has no effect.
H2U2CFlush ==
    /\ tun.route = "h2" /\ tun.u2c.pc = "flush"
    /\ tun' = [tun EXCEPT !.u2c =
                  AfterWrite([@ EXCEPT !.wres = "none"], tun.u2c.wres,
                             FALSE, "send")]
    /\ UNCHANGED <<dcfg, chain, relay, ep, cfg, req, srv, conns, cli, wire>>

\* A variant that logs every non-nil result, io.EOF included.
LoggedWithEOF(log, err) ==
    IF err # "nil" THEN Append(log, err) ELSE log

\* The engine logs a terminal result that is neither nil nor io.EOF.
Logged(log, err) ==
    IF err # "nil" /\ err # "EOF" THEN Append(log, err) ELSE log

\* A variant whose cancellation path returns without the deferred closes.
EngCancelledSkipsCloses ==
    /\ tun.eng = "select"
    /\ tun.ctx = "request" /\ srv.reqCtxDone
    /\ tun' = [tun EXCEPT !.eng = "returned"]
    /\ srv' = [srv EXCEPT !.pc = "returned"]
    /\ UNCHANGED <<dcfg, chain, relay, ep, cfg, req, conns, cli, wire>>

\* select, case <-ctx.Done(): return.
EngCancelled ==
    /\ tun.eng = "select"
    /\ tun.ctx = "request" /\ srv.reqCtxDone
    /\ tun' = [tun EXCEPT !.eng = "closeUpstream"]
    /\ UNCHANGED <<dcfg, chain, relay, ep, cfg, req, srv, conns, cli, wire>>

\* A variant that returns on the first completion without the second wait.
EngFirstReturns ==
    /\ tun.eng = "select"
    /\ Len(tun.errCh) > 0
    /\ tun' = [tun EXCEPT !.errCh = Tail(@),
                          !.logged = Logged(@, Head(tun.errCh)),
                          !.eng = "closeUpstream"]
    /\ UNCHANGED <<dcfg, chain, relay, ep, cfg, req, srv, conns, cli, wire>>

\* select, case err := <-errCh: the first completion.
EngFirst ==
    /\ tun.eng = "select"
    /\ Len(tun.errCh) > 0
    /\ tun' = [tun EXCEPT !.errCh = Tail(@),
                          !.logged = Logged(@, Head(tun.errCh)),
                          !.eng = "wait2"]
    /\ UNCHANGED <<dcfg, chain, relay, ep, cfg, req, srv, conns, cli, wire>>

\* err2 := <-errCh: the second completion, then return.
EngSecond ==
    /\ tun.eng = "wait2"
    /\ Len(tun.errCh) > 0
    /\ tun' = [tun EXCEPT !.errCh = Tail(@),
                          !.logged = Logged(@, Head(tun.errCh)),
                          !.eng = "closeUpstream"]
    /\ UNCHANGED <<dcfg, chain, relay, ep, cfg, req, srv, conns, cli, wire>>

\* On return, deferred: upstream.Close()
EngCloseUpstream ==
    /\ tun.eng = "closeUpstream"
    /\ conns' = CloseUpstream(conns)
    /\ tun' = [tun EXCEPT !.eng = "closeClient"]
    /\ UNCHANGED <<dcfg, chain, relay, ep, cfg, req, srv, cli, wire>>

\* A variant that returns without closing the client side.
EngReturnLeavesClient ==
    /\ tun.eng = "closeClient"
    /\ tun' = [tun EXCEPT !.eng = "returned"]
    /\ srv' = IF tun.route = "h2" THEN [srv EXCEPT !.pc = "returned"] ELSE srv
    /\ UNCHANGED <<dcfg, chain, relay, ep, cfg, req, conns, cli, wire>>

\* On return, deferred: client.Close() (HTTP/1.1) or reqBody.Close()
\* (HTTP/2); tunnel has returned, and with it the HTTP/2 ServeHTTP.
EngCloseClient ==
    /\ tun.eng = "closeClient"
    /\ conns' = CloseClient(conns)
    /\ tun' = [tun EXCEPT !.eng = "returned"]
    /\ srv' = IF tun.route = "h2" THEN [srv EXCEPT !.pc = "returned"] ELSE srv
    /\ UNCHANGED <<dcfg, chain, relay, ep, cfg, req, cli, wire>>

----------------------------------------------------------------------------
\* The client dialers: h1Dialer.DialContext and h2Dialer.DialContext (the
\* latter serves NewH2Dialer and NewH2CDialer).

\* return nil, err
Fail(c, err, why) ==
    [c EXCEPT !.pc = "done", !.failure = why,
              !.result = [conn |-> "nil", remoteAddr |-> "", network |-> "",
                          err |-> err]]

\* if !strings.HasPrefix(network, "tcp") { return nil, unsupported network }
NetworkSupported(n) == HasPrefix(n, NetTcp)

\* The CONNECT request a dialer sends for its target.
ConnectRequest(c) ==
    [origin |-> "dialer", Method |-> MethodConnect,
     ProtoMajor |-> IF c.dialer = "h1" THEN 1 ELSE 2,
     RequestURI |-> c.address, Host |-> c.address]

\* DialContext up to its first call out: the network check and, for the
\* HTTP/2 dialers, io.Pipe().
DialContextStart(c, d, hf, n, a) ==
    LET c1 == [c EXCEPT !.dialer = d, !.headerFunc = hf,
                        !.network = n, !.address = a]
    IN IF ~NetworkSupported(n) THEN Fail(c1, UnsupportedNetworkErr, "network")
       ELSE IF d = "h1" THEN [c1 EXCEPT !.pc = "dialproxy"]
       ELSE [c1 EXCEPT !.pr = "open", !.pw = "open", !.pc = "headers"]

DialContext ==
    /\ cli.pc = "idle" /\ req = None
    /\ \E d \in {"h1", "h2", "h2c"}, n \in Networks, a \in Addresses :
          \E hf \in (IF d = "h1" THEN {"nil"} ELSE {"nil", "set"}) :
             cli' = DialContextStart(cli, d, hf, n, a)
    /\ UNCHANGED <<dcfg, chain, relay, ep, cfg, req, srv, conns, tun, wire>>

\* HTTP/1.1: conn, err := d.dial(ctx, network, d.proxyAddr)
H1AfterDial(c, e) ==
    LET c1 == [c EXCEPT !.dialCalls = @ + 1]
    IN IF e # NilErr THEN Fail(c1, ProxyConnectErrorf(e), "dial")
       ELSE [c1 EXCEPT !.conn = "open", !.pc = "writereq"]

H1DialProxy ==
    /\ cli.pc = "dialproxy"
    /\ \E e \in DialErrs \cup {NilErr} : cli' = H1AfterDial(cli, e)
    /\ UNCHANGED <<dcfg, chain, relay, ep, cfg, req, srv, conns, tun, wire>>

\* HTTP/1.1: req.Write(conn); on error conn.Close() and ErrProxyConnect.
H1AfterWrite(c, err) ==
    IF err
    THEN Fail([c EXCEPT !.conn = "closed"], ProxyConnectErrorf(IOErr), "write")
    ELSE [c EXCEPT !.requests = @ + 1, !.pc = "readresp"]

H1WriteRequest ==
    /\ cli.pc = "writereq"
    /\ \E err \in BOOLEAN :
          /\ cli' = H1AfterWrite(cli, err)
          /\ req' = IF err THEN req ELSE ConnectRequest(cli)
    /\ UNCHANGED <<dcfg, chain, relay, ep, cfg, srv, conns, tun, wire>>

\* A variant that dials the proxy again when the response cannot be read.
H1ReadFailRetries(c) == [c EXCEPT !.conn = "closed", !.pc = "dialproxy"]

\* HTTP/1.1: http.ReadResponse(br, req) fails: conn.Close(), ErrProxyConnect.
H1AfterReadFail(c) ==
    Fail([c EXCEPT !.conn = "closed"], ProxyConnectErrorf(IOErr), "read")

H1ReadResponseFail ==
    /\ cli.pc = "readresp"
    /\ cli' = H1AfterReadFail(cli)
    /\ UNCHANGED <<dcfg, chain, relay, ep, cfg, req, srv, conns, tun, wire>>

\* A non-200 path that leaves the proxy connection open.
H1StatusLeaksConn(c, resp) ==
    IF resp.code # StatusOK
    THEN Fail([c EXCEPT !.resp = resp],
              ProxyError(resp.code, resp.status), "status")
    ELSE [c EXCEPT !.resp = resp, !.pc = "done",
                   !.result = [conn |-> "bufferedConn", remoteAddr |-> "proxy",
                               network |-> "tcp", err |-> NilErr]]

\* HTTP/1.1: the response head was read: a non-200 status closes conn and
\* returns a ProxyError; 200 returns the bufferedConn.
H1AfterResponse(c, resp) ==
    IF resp.code # StatusOK
    THEN Fail([c EXCEPT !.resp = resp, !.conn = "closed"],
              ProxyError(resp.code, resp.status), "status")
    ELSE [c EXCEPT !.resp = resp, !.pc = "done",
                   !.result = [conn |-> "bufferedConn", remoteAddr |-> "proxy",
                               network |-> "tcp", err |-> NilErr]]

H1ReadResponse ==
    /\ cli.pc = "readresp" /\ wire # None
    /\ cli' = H1AfterResponse(cli, wire)
    /\ UNCHANGED <<dcfg, chain, relay, ep, cfg, req, srv, conns, tun, wire>>

\* pr.Close(); pw.Close()
ClosePipe(c) == [c EXCEPT !.pr = "closed", !.pw = "closed"]

\* HTTP/2: d.headerFunc(req), when configured.
H2AfterHeaders(c, err) ==
    IF err THEN Fail(ClosePipe(c), ProxyConnectErrorf(IOErr), "headers")
    ELSE [c EXCEPT !.pc = "roundtrip"]

H2Headers ==
    /\ cli.pc = "headers"
    /\ \E err \in (IF cli.headerFunc = "nil" THEN {FALSE} ELSE BOOLEAN) :
          cli' = H2AfterHeaders(cli, err)
    /\ UNCHANGED <<dcfg, chain, relay, ep, cfg, req, srv, conns, tun, wire>>

\* HTTP/2: d.transport.RoundTrip(req) fails (before or after the request
\* went out): pr.Close(); pw.Close(); ErrProxyConnect.
H2AfterRoundTripFail(c, e) ==
    Fail(ClosePipe(c), ProxyConnectErrorf(e), "roundtrip")

\* HTTP/2: RoundTrip sends the request head, on a connection the transport
\* already has (k = 0) or dials for it (k = 1).
H2RoundTripSend ==
    /\ cli.pc = "roundtrip"
    /\ \E e \in DialErrs \cup {NilErr}, k \in {0, 1} :
          IF e # NilErr
          THEN /\ cli' = H2AfterRoundTripFail(
                            [cli EXCEPT !.dialCalls = @ + k], e)
               /\ UNCHANGED req
          ELSE /\ cli' = [cli EXCEPT !.dialCalls = @ + k,
                                     !.requests = @ + 1, !.pc = "awaitresp"]
               /\ req' = ConnectRequest(cli)
    /\ UNCHANGED <<dcfg, chain, relay, ep, cfg, srv, conns, tun, wire>>

\* HTTP/2: RoundTrip fails while waiting for the response head.
H2RoundTripFail ==
    /\ cli.pc = "awaitresp"
    /\ cli' = H2AfterRoundTripFail(cli, IOErr)
    /\ UNCHANGED <<dcfg, chain, relay, ep, cfg, req, srv, conns, tun, wire>>

\* &remoteAddr{addr: address}
NewRemoteAddr(address) == [addr |-> address]

\* A variant of Network that reports the name "tunnel".
NetworkTunnel(a) == "tunnel"

\* func (a *remoteAddr) Network() string
Network(a) == "connecttunnel"

\* A variant of String that reports the proxy instead of the target.
StringProxy(a) == "proxy"

\* func (a *remoteAddr) String() string
String(a) == a.addr

\* HTTP/2: RoundTrip returned the response head: a non-200 status closes
\* the body and the pipe and returns a ProxyError; 200 returns the h2Conn
\* wrapped by newStreamConnRW with the target as remote address.
H2AfterResponse(c, resp) ==
    IF resp.code # StatusOK
    THEN Fail(ClosePipe([c EXCEPT !.resp = resp, !.body = "closed"]),
              ProxyError(resp.code, resp.status), "status")
    ELSE [c EXCEPT !.resp = resp, !.body = "open", !.pc = "done",
                   !.result = [conn |-> "streamConnRW",
                               remoteAddr |-> String(NewRemoteAddr(c.address)),
                               network |-> Network(NewRemoteAddr(c.address)),
                               err |-> NilErr]]

H2RoundTripRecv ==
    /\ cli.pc = "awaitresp" /\ wire # None
    /\ cli' = H2AfterResponse(cli, wire)
    /\ UNCHANGED <<dcfg, chain, relay, ep, cfg, req, srv, conns, tun, wire>>

----------------------------------------------------------------------------
\* The next-state relations.

\* The server handshake's steps.
Handshake ==
    \/ ServeHTTP
    \/ CheckTunnel
    \/ DialUpstream
    \/ H1Hijack
    \/ H1Write200
    \/ H1Flush200
    \/ H2EnableFullDuplex
    \/ H2WriteHeaderFlush

\* The copy engine's steps.
Engine ==
    \/ C2URead
    \/ C2UWrite
    \/ C2UCloseWrite
    \/ C2USend
    \/ U2CRead
    \/ H1U2CWrite
    \/ H1U2CCloseWrite
    \/ U2CSend
    \/ H2U2CWrite
    \/ H2U2CFlush
    \/ EngCancelled
    \/ EngFirst
    \/ EngSecond
    \/ EngCloseUpstream
    \/ EngCloseClient

\* A DialContext call's steps.
Dial ==
    \/ DialContext
    \/ H1DialProxy
    \/ H1WriteRequest
    \/ H1ReadResponseFail
    \/ H1ReadResponse
    \/ H2Headers
    \/ H2RoundTripSend
    \/ H2RoundTripFail
    \/ H2RoundTripRecv

\* The server: any request, its handshake and the tunnel it starts.
Next == RawRequest \/ CancelRequestContext \/ Handshake \/ Engine

Spec == Init /\ [][Next]_vars

\* The dial exchange: a dialer's DialContext against the server's handshake.
\* The local proxy command (cmd/local-connect-proxy): handleConnect dials the
\* target through its HTTP/2 dialer, whose HeadersForRequest asks the token
\* source for a token and fails when the token source fails.  A dial error
\* is answered 502; then a ResponseWriter that cannot hijack is answered
\* 500, a failed Hijack writes nothing, and otherwise the 200 line goes out
\* on the hijacked socket.
HandleConnectStatus(result, hijack) ==
    IF result.err # NilErr THEN <<StatusBadGateway>>
    ELSE IF hijack = "unsupported" THEN <<StatusInternalServerError>>
    ELSE IF hijack = "failed" THEN <<>>
    ELSE <<StatusOK>>

HandleConnect ==
    /\ cli.pc = "done" /\ ~cli.handled
    /\ cli.dialer = "h2" /\ cli.headerFunc = "set"
    /\ \E hijack \in {"ok", "unsupported", "failed"} :
          cli' = [cli EXCEPT !.handled = TRUE,
                             !.localStatus =
                                 HandleConnectStatus(cli.result, hijack)]
    /\ UNCHANGED <<dcfg, chain, relay, ep, cfg, req, srv, conns, tun, wire>>

NextDial == Dial \/ Handshake \/ HandleConnect

SpecDial == Init /\ [][NextDial]_vars

\* What the Go runtime guarantees of a running tunnel: a step that cannot
\* block is eventually taken.  The engine's select, its second receive when
\* a value is ready and its deferred closes, a task's CloseWrite and its
\* send on errCh (while the channel has room), a Read or Write on an
\* endpoint that has been closed (it returns an error), a Write on the
\* HTTP/2 response after its handler returned, and a Flush.  A Read or Write on an
\* open endpoint returns when the peer lets it, which nothing guarantees.
EngineFairness ==
    /\ WF_vars(EngCancelled)
    /\ WF_vars(EngFirst)
    /\ WF_vars(EngSecond)
    /\ WF_vars(EngCloseUpstream)
    /\ WF_vars(EngCloseClient)
    /\ WF_vars(C2UCloseWrite)
    /\ WF_vars(C2USend)
    /\ WF_vars(H1U2CCloseWrite)
    /\ WF_vars(U2CSend)
    /\ WF_vars(conns.client = "closed" /\ C2URead)
    /\ WF_vars(conns.upstream = "closed" /\ C2UWrite)
    /\ WF_vars(conns.upstream = "closed" /\ U2CRead)
    /\ WF_vars(conns.client = "closed" /\ H1U2CWrite)
    /\ WF_vars(srv.pc = "returned" /\ H2U2CWrite)
    /\ WF_vars(H2U2CFlush)

\* The server under that scheduling.
SpecLive == Init /\ [][Next]_vars /\ EngineFairness

----------------------------------------------------------------------------
\* Tunnel Endpoints: the connections the dialers return (bufferedConn for
\* HTTP/1.1, streamConnRW over h2Conn for HTTP/2) and tunnelConn, over the
\* resources they hold.  A resource (socket, response body, pipe writer,
\* extra closer) is open or closed, counts the Close calls it received and
\* the times it was released, and may fail its first Close.

\* The bytes the proxy sends after the response head: 1, 2, .. PayloadLen.
PayloadLen == 3
\* The largest buffer a caller passes to Read.
MaxRead == 2
\* The most Write and Close calls made on one endpoint.
MaxWrites == 2
MaxCloses == 2

Payload == [i \in 1..PayloadLen |-> i]
\* The response head, as one token on the socket ahead of the payload.
ResponseHead == "head"

EndpointKinds == {"bufferedConn", "streamConnRW", "tunnelConn"}

Resource(fails) ==
    [state |-> "open", closeCalls |-> 0, releases |-> 0, failClose |-> fails,
     rdl |-> FALSE, wdl |-> FALSE]
Absent ==
    [state |-> "absent", closeCalls |-> 0, releases |-> 0, failClose |-> FALSE,
     rdl |-> FALSE, wdl |-> FALSE]

NoResult == [op |-> "none", n |-> 0, err |-> "nil", err1 |-> "nil", err2 |-> "nil"]
Result(op, n, err) ==
    [op |-> op, n |-> n, err |-> err, err1 |-> "nil", err2 |-> "nil"]

\* The first n elements of a sequence, and the rest.
Take(q, n) == SubSeq(q, 1, n)
Drop(q, n) == SubSeq(q, n + 1, Len(q))
Min(x, y) == IF x < y THEN x ELSE y

\* A variant of a resource's Close that releases the resource at every call.
ResCloseReleasesAgain(r, name, again) ==
    [r |-> [r EXCEPT !.state = "closed", !.closeCalls = @ + 1,
                     !.releases = @ + 1],
     err |-> IF r.failClose THEN name \o ": close error" ELSE "nil"]

\* Close of an underlying resource (net.Conn, response body, pipe writer):
\* the first call releases it and may report an error; a later call
\* releases nothing and returns what that kind of resource returns when
\* closed again (again: an error for a socket, nil for a pipe or a body).
ResClose(r, name, again) ==
    IF r.state = "open"
    THEN [r |-> [r EXCEPT !.state = "closed", !.closeCalls = @ + 1,
                          !.releases = @ + 1],
          err |-> IF r.failClose THEN name \o ": close error" ELSE "nil"]
    ELSE [r |-> [r EXCEPT !.closeCalls = @ + 1], err |-> again]

\* The endpoint DialContext is about to return: the HTTP/1.1 dialer still
\* has to read the response head from its socket; the HTTP/2 dialer has the
\* response body (payload still to come on it) and the pipe writer.
NewEndpoint(kind, failA, failB, closer) ==
    [kind |-> kind,
     phase |-> IF kind = "bufferedConn" THEN "response" ELSE "open",
     a |-> Resource(failA),
     b |-> IF kind = "streamConnRW" \/ (kind = "tunnelConn" /\ closer)
           THEN Resource(failB) ELSE Absent,
     sock |-> IF kind = "bufferedConn" THEN <<ResponseHead>> \o Payload ELSE Payload,
     br |-> <<>>, over |-> 0, got |-> <<>>, writes |-> 0, closes |-> 0,
     asked |-> "none", last |-> NoResult]

\* br := bufio.NewReader(conn); http.ReadResponse(br, req): the reader fills
\* its buffer with the m bytes one Read of the socket returns, the parser
\* takes the head, and what was read beyond it stays buffered in br (over
\* counts those bytes).
ReadResponseBuffered(e, m) ==
    [e EXCEPT !.phase = "open", !.br = Drop(Take(e.sock, m), 1),
              !.over = m - 1, !.sock = Drop(e.sock, m)]


\* What an operation on a closed socket, response body or pipe returns.
ErrNetClosed == "use of closed network connection"
ErrBodyClosed == "http2: response body closed"
ErrClosedPipe == "io: read/write on closed pipe"
ErrTimeout == "i/o timeout"

\* The endpoint after a Read delivered the first n bytes of q to its caller
\* and left rest on the socket and buffered in br.
Delivering(e, q, n, sock, br) ==
    [e EXCEPT !.got = @ \o Take(q, n), !.sock = sock, !.br = br,
              !.last = Result("read", n, "nil")]

\* A variant of the HTTP/1.1 endpoint's Read that reads the socket itself
\* and never looks at the response reader's buffer.
ConnReadDirect(e, len, m) ==
    IF e.a.state # "open" THEN [e EXCEPT !.last = Result("read", 0, ErrNetClosed)]
    ELSE IF e.a.rdl THEN [e EXCEPT !.last = Result("read", 0, ErrTimeout)]
    ELSE Delivering(e, e.sock, Min(len, m), Drop(e.sock, Min(len, m)), e.br)

\* bufferedConn.Read: c.reader.Read(b), bufio.Reader's Read.  Buffered
\* bytes are copied out, at most len of them, without touching the socket;
\* with an empty buffer one Read of the socket (returning m bytes) fills the
\* buffer first, and fails when the socket is closed or its deadline passed.
BufferedConnRead(e, len, m) ==
    IF e.br # <<>>
    THEN LET n == Min(len, Len(e.br))
         IN Delivering(e, e.br, n, e.sock, Drop(e.br, n))
    ELSE IF e.a.state # "open"
    THEN [e EXCEPT !.last = Result("read", 0, ErrNetClosed)]
    ELSE IF e.a.rdl THEN [e EXCEPT !.last = Result("read", 0, ErrTimeout)]
    ELSE LET n == Min(len, m)
         IN Delivering(e, e.sock, n, Drop(e.sock, m), Drop(Take(e.sock, m), n))

\* streamConnRW.Read -> h2Conn.Read: c.reader.Read(p) on the response body,
\* which fails once the body is closed, whatever it still holds.
H2ConnRead(e, n) ==
    IF e.a.state # "open" THEN [e EXCEPT !.last = Result("read", 0, ErrBodyClosed)]
    ELSE Delivering(e, e.sock, n, Drop(e.sock, n), e.br)

\* tunnelConn's Read is its embedded net.Conn's.
ConnRead(e, n) ==
    IF e.a.state # "open" THEN [e EXCEPT !.last = Result("read", 0, ErrNetClosed)]
    ELSE IF e.a.rdl THEN [e EXCEPT !.last = Result("read", 0, ErrTimeout)]
    ELSE Delivering(e, e.sock, n, Drop(e.sock, n), e.br)

\* Write on the embedded net.Conn (bufferedConn, tunnelConn).
ConnWrite(e) ==
    IF e.a.state # "open" THEN [e EXCEPT !.last = Result("write", 0, ErrNetClosed)]
    ELSE IF e.a.wdl THEN [e EXCEPT !.last = Result("write", 0, ErrTimeout)]
    ELSE [e EXCEPT !.writes = @ + 1, !.last = Result("write", 1, "nil")]

\* streamConnRW.Write -> h2Conn.Write: c.writer.Write(p) on the pipe writer.
H2ConnWrite(e) ==
    IF e.b.state # "open" THEN [e EXCEPT !.last = Result("write", 0, ErrClosedPipe)]
    ELSE [e EXCEPT !.writes = @ + 1, !.last = Result("write", 1, "nil")]

\* The endpoint after a Close that closed a (result c1) and possibly b
\* (result c2) and returned err.
Closed(e, a, b, err1, err2, err) ==
    [e EXCEPT !.a = a, !.b = b, !.closes = @ + 1,
              !.last = [op |-> "close", n |-> 0, err |-> err,
                        err1 |-> err1, err2 |-> err2]]

\* bufferedConn.Close: the embedded net.Conn's Close.
BufferedConnClose(e) ==
    LET c1 == ResClose(e.a, "conn", ErrNetClosed)
    IN Closed(e, c1.r, e.b, c1.err, "nil", c1.err)

\* A variant of h2Conn.Close that stops at the reader's error.
H2ConnCloseStopsAtError(e) ==
    LET c1 == ResClose(e.a, "reader", "nil")
        c2 == ResClose(e.b, "writer", "nil")
    IN IF c1.err # "nil" THEN Closed(e, c1.r, e.b, c1.err, "nil", c1.err)
       ELSE Closed(e, c1.r, c2.r, c1.err, c2.err, c2.err)

\* streamConnRW.Close -> h2Conn.Close: err1 := c.reader.Close();
\* err2 := c.writer.Close(); if err1 != nil { return err1 }; return err2
H2ConnClose(e) ==
    LET c1 == ResClose(e.a, "reader", "nil")
        c2 == ResClose(e.b, "writer", "nil")
    IN Closed(e, c1.r, c2.r, c1.err, c2.err,
              IF c1.err # "nil" THEN c1.err ELSE c2.err)

\* tunnelConn.Close: err1 := c.Conn.Close(); if c.closer != nil { err2 :=
\* c.closer.Close(); if err1 == nil { return err2 } }; return err1
TunnelConnClose(e) ==
    LET c1 == ResClose(e.a, "conn", ErrNetClosed)
        c2 == ResClose(e.b, "closer", "closer: already closed")
    IN IF e.b.state # "absent"
       THEN Closed(e, c1.r, c2.r, c1.err, c2.err,
                   IF c1.err = "nil" THEN c2.err ELSE c1.err)
       ELSE Closed(e, c1.r, e.b, c1.err, "nil", c1.err)

\* The deadline kinds (SetDeadline, SetReadDeadline, SetWriteDeadline) and
\* the times passed: the zero time (no deadline) or a time already passed.
DeadlineKinds == {"both", "read", "write"}
DeadlineTimes == {"zero", "past"}

\* SetDeadline, SetReadDeadline, SetWriteDeadline of the embedded net.Conn
\* (bufferedConn, tunnelConn): the socket enforces the deadline.
ConnSetDeadline(e, which, t) ==
    IF e.a.state # "open"
    THEN [e EXCEPT !.asked = t, !.last = Result("setdeadline", 0, ErrNetClosed)]
    ELSE [e EXCEPT !.asked = t,
                   !.a.rdl = IF which \in {"both", "read"} THEN t = "past" ELSE @,
                   !.a.wdl = IF which \in {"both", "write"} THEN t = "past" ELSE @,
                   !.last = Result("setdeadline", 0, "nil")]

\* A variant of the stream setters that enforces the deadline on the body.
StreamSetDeadlineApplies(e, which, t) ==
    [e EXCEPT !.asked = t,
              !.a.rdl = IF which \in {"both", "read"} THEN t = "past" ELSE @,
              !.a.wdl = IF which \in {"both", "write"} THEN t = "past" ELSE @,
              !.last = Result("setdeadline", 0, "nil")]

\* streamConnRW.SetDeadline, SetReadDeadline, SetWriteDeadline: return nil.
\* (asked only records what the caller passed.)
StreamSetDeadline(e, which, t) ==
    [e EXCEPT !.asked = t, !.last = Result("setdeadline", 0, "nil")]


\* A Read returns only when it has something to report: buffered or arrived
\* bytes, a closed resource, or a passed deadline; else it blocks.
ReadReturns(e) ==
    \/ e.br # <<>>
    \/ e.sock # <<>>
    \/ e.a.state # "open"
    \/ e.a.rdl

\* The HTTP/1.1 dialer reads the response head through its buffered reader.
EpReadResponse ==
    /\ ep.kind = "bufferedConn" /\ ep.phase = "response"
    /\ \E m \in 1..Len(ep.sock) : ep' = ReadResponseBuffered(ep, m)
    /\ UNCHANGED <<dcfg, chain, cfg, req, srv, conns, tun, cli, wire, relay>>

\* The caller reads from the endpoint into a buffer of len bytes.
EpRead ==
    /\ ep.kind \in EndpointKinds /\ ep.phase = "open" /\ ReadReturns(ep)
    /\ \E len \in 1..MaxRead :
          CASE ep.kind = "bufferedConn" ->
                 \E m \in 1..(IF ep.sock = <<>> THEN 1 ELSE Len(ep.sock)) :
                    ep' = BufferedConnRead(ep, len, m)
            [] ep.kind = "streamConnRW" ->
                 \E n \in 1..(IF ep.sock = <<>> THEN 1 ELSE Min(len, Len(ep.sock))) :
                    ep' = H2ConnRead(ep, n)
            [] ep.kind = "tunnelConn" ->
                 \E n \in 1..(IF ep.sock = <<>> THEN 1 ELSE Min(len, Len(ep.sock))) :
                    ep' = ConnRead(ep, n)
    /\ UNCHANGED <<dcfg, chain, cfg, req, srv, conns, tun, cli, wire, relay>>

\* The caller writes to the endpoint.
EpWrite ==
    /\ ep.kind \in EndpointKinds /\ ep.phase = "open"
    /\ ep.writes < MaxWrites
    /\ ep' = IF ep.kind = "streamConnRW" THEN H2ConnWrite(ep) ELSE ConnWrite(ep)
    /\ UNCHANGED <<dcfg, chain, cfg, req, srv, conns, tun, cli, wire, relay>>

\* The caller closes the endpoint.
EpClose ==
    /\ ep.kind \in EndpointKinds /\ ep.phase = "open"
    /\ ep.closes < MaxCloses
    /\ ep' = CASE ep.kind = "bufferedConn" -> BufferedConnClose(ep)
               [] ep.kind = "streamConnRW" -> H2ConnClose(ep)
               [] ep.kind = "tunnelConn" -> TunnelConnClose(ep)
    /\ UNCHANGED <<dcfg, chain, cfg, req, srv, conns, tun, cli, wire, relay>>

\* The caller sets a deadline.
EpSetDeadline ==
    /\ ep.kind \in EndpointKinds /\ ep.phase = "open"
    /\ \E which \in DeadlineKinds, t \in DeadlineTimes :
          ep' = IF ep.kind = "streamConnRW"
                THEN StreamSetDeadline(ep, which, t)
                ELSE ConnSetDeadline(ep, which, t)
    /\ UNCHANGED <<dcfg, chain, cfg, req, srv, conns, tun, cli, wire, relay>>

\* An endpoint fresh from its dialer; nothing else is going on.
InitConn ==
    /\ cfg = [handler |-> "unified", OnTunnel |-> "nil"]
    /\ req = None
    /\ srv = IdleServer
    /\ conns = NoConns
    /\ tun = NoTunnel
    /\ cli = IdleClient
    /\ wire = None
    /\ relay = NoRelay
    /\ chain = NoChain
    /\ dcfg = NoDialer
    /\ \E kind \in EndpointKinds, failA \in BOOLEAN, failB \in BOOLEAN,
          closer \in BOOLEAN :
          ep = NewEndpoint(kind, failA, failB, closer)

NextConn == EpReadResponse \/ EpRead \/ EpWrite \/ EpClose \/ EpSetDeadline

\* The life of one endpoint in the hands of its caller.
SpecConn == InitConn /\ [][NextConn]_vars

----------------------------------------------------------------------------
\* The data plane: tunnels opened through one dialer to one proxy, each to
\* its own echoing target.  A tunnel's bytes go from the client's endpoint
\* over the transport to the proxy (c2s), through the client-to-upstream
\* copy task (its chunk c2uBuf) to the target (up), are echoed (back), and
\* return through the upstream-to-client task (u2cBuf) and the transport
\* (s2c, and br on HTTP/1.1) to the reader (recv).  The transports (TCP, the
\* HTTP/2 streams of one connection) deliver each tunnel's bytes in order.

\* Tunnels open at once, bytes each client writes, and the most bytes one
\* Read of a copy task returns.
NumTunnels == 2
RelayLen == 2
MaxChunk == 2

Tunnels == 1..NumTunnels
DialerKinds == {"h1", "h2", "h2c"}

\* The target of tunnel t, and the bytes its client writes: each byte
\* carries its tunnel and its position.
AddrOf(t) == ToString(t) \o ":80"
RelayAddrs == {AddrOf(t) : t \in Tunnels}
RelayPayload(t) == [i \in 1..RelayLen |-> <<t, i>>]

IdleRelayTunnel ==
    [phase |-> "idle", req |-> None, target |-> "",
     sent |-> 0, c2s |-> <<>>, c2u |-> "idle", c2uBuf |-> <<>>,
     u2c |-> "idle", u2cBuf |-> <<>>, s2c |-> <<>>, br |-> <<>>,
     recv |-> <<>>]

NewRelay(kind) ==
    [kind |-> kind,
     tn |-> [t \in Tunnels |-> IdleRelayTunnel],
     up |-> [a \in RelayAddrs |-> <<>>],
     seen |-> [a \in RelayAddrs |-> <<>>],
     back |-> [a \in RelayAddrs |-> <<>>]]

\* A variant in which every tunnel's copy tasks use the upstream connection
\* of the first tunnel that has one.
UpstreamShared(rl, t) ==
    LET ts == {u \in Tunnels : rl.tn[u].target # ""}
    IN rl.tn[CHOOSE u \in ts : \A v \in ts : u <= v].target

\* The upstream connection the copy tasks of tunnel t read and write: the
\* one their own handshake dialled and passed to tunnel().
UpstreamOf(rl, t) == rl.tn[t].target

\* A variant of the write that passes on only the first byte of a chunk.
CopyWrittenFirstOnly(buf, w, n) ==
    CASE w = "ok" -> Take(buf, 1)
      [] w = "short" -> Take(buf, n)
      [] w = "err" -> <<>>

\* What a copy task's Write of chunk buf puts on its destination: all of
\* buf[0:nr], or, when the write fails or is short, the first n bytes.
CopyWritten(buf, w, n) ==
    CASE w = "ok" -> buf
      [] w = "short" -> Take(buf, n)
      [] w = "err" -> <<>>

\* A dialer's DialContext sends its CONNECT for the tunnel's target.
RDial(t) ==
    /\ relay.tn[t].phase = "idle"
    /\ relay' = [relay EXCEPT
          !.tn[t].phase = "requested",
          !.tn[t].req = ConnectRequest(
              [dialer |-> IF relay.kind = "h1" THEN "h1" ELSE "h2",
               address |-> AddrOf(t)])]
    /\ UNCHANGED <<dcfg, chain, cfg, req, srv, conns, tun, cli, wire, ep>>

\* The proxy's handshake for the tunnel's request succeeds: it dials the
\* target the request names, answers 200 and starts tunnel().
RAccept(t) ==
    /\ relay.tn[t].phase = "requested"
    /\ LET r == relay.tn[t].req
           route == Route(cfg.handler, r)
       IN /\ Validate(route, r) = 0
          /\ relay' = [relay EXCEPT !.tn[t].phase = "accepted",
                                    !.tn[t].target = Target(route, r),
                                    !.tn[t].c2u = "read",
                                    !.tn[t].u2c = "read"]
    /\ UNCHANGED <<dcfg, chain, cfg, req, srv, conns, tun, cli, wire, ep>>

\* DialContext reads the 200 and returns the endpoint.
REstablished(t) ==
    /\ relay.tn[t].phase = "accepted"
    /\ relay' = [relay EXCEPT !.tn[t].phase = "open"]
    /\ UNCHANGED <<dcfg, chain, cfg, req, srv, conns, tun, cli, wire, ep>>

\* The client writes the next k bytes of its payload to its endpoint
\* (conn.Write on HTTP/1.1, the pipe writer on HTTP/2).
RClientWrite(t) ==
    /\ relay.tn[t].phase = "open"
    /\ relay.tn[t].sent < RelayLen
    /\ \E k \in 1..(RelayLen - relay.tn[t].sent) :
          relay' = [relay EXCEPT
              !.tn[t].sent = @ + k,
              !.tn[t].c2s = @ \o SubSeq(RelayPayload(t), relay.tn[t].sent + 1,
                                        relay.tn[t].sent + k)]
    /\ UNCHANGED <<dcfg, chain, cfg, req, srv, conns, tun, cli, wire, ep>>


\* Client to upstream: io.Copy(upstream, client) or io.Copy(upstream,
\* reqBody) reads a chunk of what the client sent.
RC2URead(t) ==
    /\ relay.tn[t].c2u = "read"
    /\ relay.tn[t].c2s # <<>>
    /\ \E n \in 1..Min(MaxChunk, Len(relay.tn[t].c2s)) :
          relay' = [relay EXCEPT !.tn[t].c2u = "write",
                                 !.tn[t].c2uBuf = Take(relay.tn[t].c2s, n),
                                 !.tn[t].c2s = Drop(@, n)]
    /\ UNCHANGED <<dcfg, chain, cfg, req, srv, conns, tun, cli, wire, ep>>

\* Client to upstream: the chunk is written to the task's upstream; a
\* failed or short write ends the task.
RC2UWrite(t) ==
    /\ relay.tn[t].c2u = "write"
    /\ \E w \in {"ok", "short", "err"} :
       \E n \in (IF w = "short" THEN 0..(Len(relay.tn[t].c2uBuf) - 1) ELSE {0}) :
          LET a == UpstreamOf(relay, t)
              out == CopyWritten(relay.tn[t].c2uBuf, w, n)
          IN relay' = [relay EXCEPT
                 !.up[a] = @ \o out,
                 !.seen[a] = @ \o out,
                 !.tn[t].c2uBuf = <<>>,
                 !.tn[t].c2u = IF w = "ok" THEN "read" ELSE "failed"]
    /\ UNCHANGED <<dcfg, chain, cfg, req, srv, conns, tun, cli, wire, ep>>

\* The target at address a echoes the next byte it received.
REcho(a) ==
    /\ relay.up[a] # <<>>
    /\ relay' = [relay EXCEPT !.up[a] = Tail(@),
                              !.back[a] = Append(@, Head(relay.up[a]))]
    /\ UNCHANGED <<dcfg, chain, cfg, req, srv, conns, tun, cli, wire, ep>>

\* Upstream to client: io.Copy(client, upstream), or upstream.Read(buf) in
\* the HTTP/2 loop, reads a chunk of what its upstream sent.
RU2CRead(t) ==
    /\ relay.tn[t].u2c = "read"
    /\ relay.back[UpstreamOf(relay, t)] # <<>>
    /\ LET a == UpstreamOf(relay, t)
       IN \E n \in 1..Min(MaxChunk, Len(relay.back[a])) :
             relay' = [relay EXCEPT !.tn[t].u2c = "write",
                                    !.tn[t].u2cBuf = Take(relay.back[a], n),
                                    !.back[a] = Drop(@, n)]
    /\ UNCHANGED <<dcfg, chain, cfg, req, srv, conns, tun, cli, wire, ep>>

\* Upstream to client: the chunk is written to the hijacked socket, or to
\* the response writer (w.Write(buf[0:nr]), then Flush); a failed or short
\* write ends the task.
RU2CWrite(t) ==
    /\ relay.tn[t].u2c = "write"
    /\ \E w \in {"ok", "short", "err"} :
       \E n \in (IF w = "short" THEN 0..(Len(relay.tn[t].u2cBuf) - 1) ELSE {0}) :
          relay' = [relay EXCEPT
              !.tn[t].s2c = @ \o CopyWritten(relay.tn[t].u2cBuf, w, n),
              !.tn[t].u2cBuf = <<>>,
              !.tn[t].u2c = IF w = "ok" THEN "read" ELSE "failed"]
    /\ UNCHANGED <<dcfg, chain, cfg, req, srv, conns, tun, cli, wire, ep>>

\* The client's endpoint as an endpoint record: what its transport holds
\* for it, what its response reader buffered, what it delivered.
RelayEndpoint(rl, t) ==
    [NewEndpoint(IF rl.kind = "h1" THEN "bufferedConn" ELSE "streamConnRW",
                 FALSE, FALSE, FALSE)
        EXCEPT !.phase = "open", !.sock = rl.tn[t].s2c, !.br = rl.tn[t].br,
               !.got = rl.tn[t].recv]

\* The tunnel's state after its client's Read left the endpoint as e.
AfterClientRead(tn, e) ==
    [tn EXCEPT !.s2c = e.sock, !.br = e.br, !.recv = e.got]

\* The client reads from its endpoint: bufferedConn.Read on HTTP/1.1,
\* streamConnRW.Read on HTTP/2.
RClientRead(t) ==
    /\ relay.tn[t].phase = "open"
    /\ relay.tn[t].s2c # <<>> \/ relay.tn[t].br # <<>>
    /\ LET e == RelayEndpoint(relay, t)
       IN \E len \in 1..MaxRead :
             IF relay.kind = "h1"
             THEN \E m \in 1..(IF e.sock = <<>> THEN 1 ELSE Len(e.sock)) :
                     relay' = [relay EXCEPT !.tn[t] =
                                  AfterClientRead(@, BufferedConnRead(e, len, m))]
             ELSE \E n \in 1..Min(len, Len(e.sock)) :
                     relay' = [relay EXCEPT !.tn[t] =
                                  AfterClientRead(@, H2ConnRead(e, n))]
    /\ UNCHANGED <<dcfg, chain, cfg, req, srv, conns, tun, cli, wire, ep>>

\* One dialer of some kind and the handler that serves it; no tunnel yet.
InitRelay ==
    /\ \E kind \in DialerKinds :
          /\ relay = NewRelay(kind)
          /\ cfg \in [handler : {"unified", IF kind = "h1" THEN "h1" ELSE "h2"},
                      OnTunnel : {"nil"}]
    /\ req = None
    /\ srv = IdleServer
    /\ conns = NoConns
    /\ tun = NoTunnel
    /\ cli = IdleClient
    /\ wire = None
    /\ ep = NoEndpoint
    /\ chain = NoChain
    /\ dcfg = NoDialer

NextRelay ==
    \/ \E t \in Tunnels :
          \/ RDial(t)
          \/ RAccept(t)
          \/ REstablished(t)
          \/ RClientWrite(t)
          \/ RC2URead(t)
          \/ RC2UWrite(t)
          \/ RU2CRead(t)
          \/ RU2CWrite(t)
          \/ RClientRead(t)
    \/ \E a \in RelayAddrs : REcho(a)

\* Concurrent tunnels through one dialer and one proxy, relaying echoes.
SpecRelay == InitRelay /\ [][NextRelay]_vars

-----------------------------------------------------------------------------
\* Composability: dialer B built with ClientConfig.DialContext set to dialer
\* A's DialContext.  A connection is the sequence of hosts its bytes pass,
\* ending at the host it reaches; a proxy that answers 200 has dialled the
\* address of the CONNECT request and relays to it.

ChainLen == 2

ProxyA == "proxy1:8080"
ProxyB == "proxy2:8443"

\* What a proxy answers to a CONNECT: 200, or a rejection.
ProxyAnswers == {StatusOK, StatusForbidden, StatusBadGateway}

\* A constructor that always installs the default net.Dialer.
DialIgnoresConfig(cfgDial) == "net"

\* dial := cfg.DialContext; if dial == nil { dial = (&net.Dialer{}).DialContext }
\* (NewH2Dialer: transport.DialTLSContext calls cfg.DialContext when set.)
GetDial(cfgDial) == IF cfgDial = "nil" THEN "net" ELSE cfgDial

\* A DialContext call that ends with an error.
ChainFail(c, err) ==
    [c EXCEPT !.pc = "done", !.conn = <<>>,
              !.result = [conn |-> <<>>, err |-> err]]

\* B.DialContext(ctx, network, target): the network check, then the dial.
ChainDialContext ==
    /\ chain.pc = "idle"
    /\ \E ka \in DialerKinds, kb \in DialerKinds, cfgDial \in {"nil", "A"},
          n \in {NetTcp, NetTcp4, NetUdp}, a \in Addresses :
          LET c1 == [chain EXCEPT !.kindA = ka, !.kindB = kb,
                                  !.cfgDial = cfgDial,
                                  !.dial = GetDial(cfgDial),
                                  !.network = n, !.target = a]
          IN chain' = IF NetworkSupported(n)
                      THEN [c1 EXCEPT !.pc = "bdial"]
                      ELSE ChainFail(c1, UnsupportedNetworkErr)
    /\ UNCHANGED <<dcfg, cfg, req, srv, conns, tun, cli, wire, relay, ep>>

\* The network B hands to its dial function: the caller's for HTTP/1.1
\* (d.dial(ctx, network, d.proxyAddr)), "tcp" from the HTTP/2 transport.
ChainDialNetwork(c) == IF c.kindB = "h1" THEN c.network ELSE NetTcp

\* B calls its dial function for its proxy's address: the default dialer
\* connects to proxy B directly; A.DialContext checks the network and goes
\* on to dial proxy A.
ChainBDial ==
    /\ chain.pc = "bdial"
    /\ IF chain.dial = "net"
       THEN \E e \in {NilErr, IOErr} :
               chain' = IF e # NilErr
                        THEN ChainFail(chain, ProxyConnectErrorf(e))
                        ELSE [chain EXCEPT !.conn = <<ProxyB>>,
                                           !.pc = "bconnect"]
       ELSE chain' = IF NetworkSupported(ChainDialNetwork(chain))
                     THEN [chain EXCEPT !.pc = "adial"]
                     ELSE ChainFail(chain,
                                    ProxyConnectErrorf(UnsupportedNetworkErr))
    /\ UNCHANGED <<dcfg, cfg, req, srv, conns, tun, cli, wire, relay, ep>>

\* A dials its own proxy with the default dialer; its error comes back to B
\* as the error of B's dial function.
ChainADial ==
    /\ chain.pc = "adial"
    /\ \E e \in {NilErr, IOErr} :
          chain' = IF e # NilErr
                   THEN ChainFail(chain,
                                  ProxyConnectErrorf(ProxyConnectErrorf(e)))
                   ELSE [chain EXCEPT !.conn = <<ProxyA>>, !.pc = "aconnect"]
    /\ UNCHANGED <<dcfg, cfg, req, srv, conns, tun, cli, wire, relay, ep>>

\* A sends CONNECT <proxy B's address> to proxy A and reads the answer: an
\* I/O failure, a rejection (ProxyError) or 200, after which A returns the
\* tunnel to proxy B as the connection B asked for.
ChainAConnect ==
    /\ chain.pc = "aconnect"
    /\ \E ioerr \in BOOLEAN, code \in ProxyAnswers :
          chain' =
             IF ioerr
             THEN ChainFail(chain,
                            ProxyConnectErrorf(ProxyConnectErrorf(IOErr)))
             ELSE LET c1 == [chain EXCEPT
                                !.seenA = Append(@, [target |-> ProxyB,
                                                     via |-> <<>>]),
                                !.respA = code]
                  IN IF code # StatusOK
                     THEN ChainFail(c1,
                             ProxyConnectErrorf(
                                ProxyError(code, StatusLine(code, FALSE))))
                     ELSE [c1 EXCEPT !.conn = Append(@, ProxyB),
                                     !.pc = "bconnect"]
    /\ UNCHANGED <<dcfg, cfg, req, srv, conns, tun, cli, wire, relay, ep>>

\* B sends CONNECT <target> over the connection its dial function returned
\* and reads the answer; on 200 it returns the tunnel to the target.
ChainBConnect ==
    /\ chain.pc = "bconnect"
    /\ \E ioerr \in BOOLEAN, code \in ProxyAnswers :
          chain' =
             IF ioerr
             THEN ChainFail(chain, ProxyConnectErrorf(IOErr))
             ELSE LET c1 == [chain EXCEPT
                                !.seenB =
                                    Append(@, [target |-> chain.target,
                                               via |-> Take(chain.conn,
                                                        Len(chain.conn) - 1)]),
                                !.respB = code]
                  IN IF code # StatusOK
                     THEN ChainFail(c1,
                             ProxyError(code, StatusLine(code, FALSE)))
                     ELSE [c1 EXCEPT
                             !.conn = Append(@, chain.target),
                             !.pc = "done",
                             !.result = [conn |-> Append(chain.conn,
                                                         chain.target),
                                         err |-> NilErr]]
    /\ UNCHANGED <<dcfg, cfg, req, srv, conns, tun, cli, wire, relay, ep>>

\* The caller writes the next byte to the connection B returned.
ChainWrite ==
    /\ chain.pc = "done" /\ chain.result.err = NilErr
    /\ Len(chain.msgs) < ChainLen
    /\ chain' = [chain EXCEPT
                    !.msgs = Append(@, [b |-> Len(chain.msgs) + 1,
                                        hops |-> <<>>])]
    /\ UNCHANGED <<dcfg, cfg, req, srv, conns, tun, cli, wire, relay, ep>>

\* A byte moves one host further along the connection, behind the bytes
\* written before it.
ChainForward ==
    /\ chain.pc = "done"
    /\ \E k \in 1..Len(chain.msgs) :
          LET n == Len(chain.msgs[k].hops)
          IN /\ n < Len(chain.result.conn)
             /\ k > 1 => Len(chain.msgs[k - 1].hops) > n
             /\ chain' = [chain EXCEPT
                             !.msgs[k].hops =
                                 Append(@, chain.result.conn[n + 1])]
    /\ UNCHANGED <<dcfg, cfg, req, srv, conns, tun, cli, wire, relay, ep>>

InitChain ==
    /\ cfg = [handler |-> "unified", OnTunnel |-> "nil"]
    /\ req = None
    /\ srv = IdleServer
    /\ conns = NoConns
    /\ tun = NoTunnel
    /\ cli = IdleClient
    /\ wire = None
    /\ relay = NoRelay
    /\ ep = NoEndpoint
    /\ chain = NoChain
    /\ dcfg = NoDialer

NextChain ==
    \/ ChainDialContext
    \/ ChainBDial
    \/ ChainADial
    \/ ChainAConnect
    \/ ChainBConnect
    \/ ChainWrite
    \/ ChainForward

SpecChain == InitChain /\ [][NextChain]_vars

-----------------------------------------------------------------------------
\* The dialers and the caller's ClientConfig.  Objects are the caller's TLS
\* configuration and header map (owner 0) and what each DialContext call
\* creates (owner: the call); objs gives each object's value, writes records
\* which call wrote to which object.

\* A variant that sets the server name on the caller's configuration.
H1TLSConfigInPlace(objs, c) ==
    IF objs[CfgTLS] = "absent"
    THEN [objs |-> [objs EXCEPT ![Own(c, "tls")] = ProxyHostName],
          ref |-> Own(c, "tls"), wrote |-> {Own(c, "tls")}]
    ELSE IF objs[CfgTLS] = ""
    THEN [objs |-> [objs EXCEPT ![CfgTLS] = ProxyHostName],
          ref |-> CfgTLS, wrote |-> {CfgTLS}]
    ELSE [objs |-> objs, ref |-> CfgTLS, wrote |-> {}]

\* tlsConfig := d.tlsConfig; a fresh tls.Config{ServerName: d.proxyHost}
\* when nil; when its ServerName is empty, tlsConfig.Clone() and the server
\* name set on the clone; else the caller's configuration itself.  An
\* object's value is its ServerName.
H1TLSConfig(objs, c) ==
    IF objs[CfgTLS] = "absent"
    THEN [objs |-> [objs EXCEPT ![Own(c, "tls")] = ProxyHostName],
          ref |-> Own(c, "tls"), wrote |-> {Own(c, "tls")}]
    ELSE IF objs[CfgTLS] = ""
    THEN [objs |-> [objs EXCEPT ![Own(c, "tls")] = ProxyHostName],
          ref |-> Own(c, "tls"), wrote |-> {Own(c, "tls")}]
    ELSE [objs |-> objs, ref |-> CfgTLS, wrote |-> {}]

\* NewH2Dialer hands cfg.TLSConfig to http2.Transport, which works on a
\* clone of it for every connection it dials.
H2TLSConfig(objs, c) ==
    [objs |-> [objs EXCEPT ![Own(c, "tls")] =
                  IF objs[CfgTLS] \in {"absent", ""} THEN ProxyHostName
                  ELSE objs[CfgTLS]],
     ref |-> Own(c, "tls"), wrote |-> {Own(c, "tls")}]

\* DialContext call c starts.
CfgDialContext(c) ==
    /\ dcfg.kind # "none" /\ dcfg.calls[c].pc = "idle"
    /\ dcfg' = [dcfg EXCEPT !.calls[c].pc = "tls"]
    /\ UNCHANGED <<cfg, req, srv, conns, tun, cli, wire, relay, ep, chain>>

\* Call c settles the TLS configuration of its connection to the proxy.
CfgDialTLS(c) ==
    /\ dcfg.calls[c].pc = "tls"
    /\ IF dcfg.useTLS
       THEN LET r == IF dcfg.kind = "h1" THEN H1TLSConfig(dcfg.objs, c)
                     ELSE H2TLSConfig(dcfg.objs, c)
            IN dcfg' = [dcfg EXCEPT
                           !.objs = r.objs,
                           !.calls[c].tls = r.ref,
                           !.calls[c].pc = "header",
                           !.writes = @ \cup {[by |-> c, obj |-> id] :
                                                 id \in r.wrote}]
       ELSE dcfg' = [dcfg EXCEPT !.calls[c].pc = "header"]
    /\ UNCHANGED <<cfg, req, srv, conns, tun, cli, wire, relay, ep, chain>>

\* Call c builds its request: Header: make(http.Header), then the entries
\* of the caller's header (d.header, or what headerFunc returned) are
\* stored into the request's own map.
CfgDialHeader(c) ==
    /\ dcfg.calls[c].pc = "header"
    /\ dcfg' = [dcfg EXCEPT
                   !.objs[Own(c, "hdr")] =
                       IF dcfg.objs[CfgHeader] = "absent" THEN "empty"
                       ELSE dcfg.objs[CfgHeader],
                   !.calls[c].hdr = Own(c, "hdr"),
                   !.calls[c].pc = "done",
                   !.writes = @ \cup {[by |-> c, obj |-> Own(c, "hdr")]}]
    /\ UNCHANGED <<cfg, req, srv, conns, tun, cli, wire, relay, ep, chain>>

InitCfg ==
    /\ cfg = [handler |-> "unified", OnTunnel |-> "nil"]
    /\ req = None
    /\ srv = IdleServer
    /\ conns = NoConns
    /\ tun = NoTunnel
    /\ cli = IdleClient
    /\ wire = None
    /\ relay = NoRelay
    /\ ep = NoEndpoint
    /\ chain = NoChain
    /\ \E kind \in {"h1", "h2"}, useTLS \in BOOLEAN,
          tlsConfig \in {"absent", "", "custom.example.com"},
          header \in {"absent", "Bearer a", "Bearer b"} :
          /\ kind = "h2" => useTLS
          /\ dcfg = NewDialer(kind, useTLS, tlsConfig, header)

NextCfg ==
    \E c \in Calls : CfgDialContext(c) \/ CfgDialTLS(c) \/ CfgDialHeader(c)

SpecCfg == InitCfg /\ [][NextCfg]_vars

----------------------------------------------------------------------------
\* Properties.

Served == req # None /\ srv.pc # "idle"
NonConnect == req # None /\ req.Method # MethodConnect
ErrorStatuses ==
    {StatusBadRequest, StatusForbidden, StatusMethodNotAllowed,
     StatusInternalServerError, StatusBadGateway,
     StatusHTTPVersionNotSupported}
ClientDone == cli.pc = "done"
ClientErr == cli.result.err
Released(x) == x \in {"none", "closed"}

\* C1, as stated: every non-CONNECT request, to any of the three handlers
\* and with any protocol version, is answered 405 and never dials upstream.
C1_AlwaysMethodNotAllowed ==
    (Served /\ NonConnect) =>
        /\ srv.statuses = <<StatusMethodNotAllowed>>
        /\ srv.dialCalls = 0

\* C1, amended: a non-CONNECT request never reaches the upstream dial (nor
\* the authorization callback) and is answered 405 by the unified handler,
\* by the HTTP/1.1 handler, and by the HTTP/2 handler when the request is
\* HTTP/2; the HTTP/2 handler answers a non-CONNECT request of any other
\* protocol version with 505, its protocol check coming first.
C1_NonConnectRejected ==
    (Served /\ NonConnect) =>
        /\ srv.pc = "returned"
        /\ srv.dialCalls = 0 /\ srv.authCalls = 0
        /\ conns.upstream = "none" /\ ~tun.started
        /\ srv.statuses =
              <<IF cfg.handler = "h2" /\ req.ProtoMajor # 2
                THEN StatusHTTPVersionNotSupported
                ELSE StatusMethodNotAllowed>>
        /\ wire = Response(srv.statuses[1])

C1_Witness ==
    /\ Served /\ NonConnect /\ cfg.handler = "h1"
    /\ req.RequestURI = ""
    /\ srv.statuses = <<StatusMethodNotAllowed>>

\* C2: when the OnTunnel callback returns an error, the handshake answers
\* 403 and stops without dialing upstream; the DialContext call that sent
\* the request returns no connection and an error, which, the response
\* having reached the dialer, is a ProxyError with status code 403.
C2_PolicyRejection ==
    srv.authErr =>
        /\ srv.pc = "returned"
        /\ srv.statuses = <<StatusForbidden>>
        /\ wire = Response(StatusForbidden)
        /\ srv.dialCalls = 0 /\ conns.upstream = "none" /\ ~tun.started
        /\ ClientDone =>
              /\ cli.result.conn = "nil"
              /\ ClientErr # NilErr
              /\ cli.resp # None =>
                    /\ ClientErr = ProxyError(StatusForbidden, "403 Forbidden")
                    /\ IsProxyError(ClientErr)

C2_Witness ==
    /\ srv.authErr /\ ClientDone /\ cli.resp # None
    /\ ClientErr.code = StatusForbidden

\* C3: when the upstream dial fails, the handshake (HTTP/1.1 and HTTP/2)
\* answers 502 and stops: no hijack, no full-duplex enabling, no 200, no
\* tunnel.
C3_DialFailure ==
    srv.dialErr =>
        /\ srv.pc = "returned"
        /\ srv.statuses = <<StatusBadGateway>>
        /\ wire = Response(StatusBadGateway)
        /\ srv.capCalls = 0
        /\ conns.client # "closed" /\ conns.upstream = "none"
        /\ ~tun.started

C3_Witness ==
    /\ srv.dialErr /\ srv.route = "h2" /\ srv.dialCalls = 1
    /\ srv.statuses = <<StatusBadGateway>>

\* C4: when the response writer cannot be hijacked (HTTP/1.1) or full
\* duplex cannot be enabled (HTTP/2), the handler answers 500, the upstream
\* connection it had dialed is closed, and no tunnel is started.
C4_CapabilityFailure ==
    srv.capErr =>
        /\ srv.pc = "returned"
        /\ srv.statuses = <<StatusInternalServerError>>
        /\ wire = Response(StatusInternalServerError)
        /\ conns.upstream = "closed" /\ conns.upstreamCloses = 1
        /\ ~tun.started

C4_Witness ==
    /\ srv.capErr /\ srv.route = "h1" /\ conns.upstream = "closed"

\* C5, as stated: every handshake that ends without a tunnel has answered
\* the peer with an HTTP error status, and a started tunnel never writes a
\* further status.
C5_EveryFailureAnswered ==
    /\ (srv.pc = "returned" /\ ~tun.started) =>
          /\ Len(srv.statuses) > 0
          /\ srv.statuses[Len(srv.statuses)] \in ErrorStatuses
    /\ tun.started => srv.statuses = <<StatusOK>>

\* C5, amended: a handshake failure that happens before the 200 response is
\* written (validation, policy, upstream dial, capability) is answered to
\* the peer with exactly one HTTP error status; a failure to write or flush
\* the 200 response is answered with no error status, only by closing the
\* connections; and once tunneling has begun the 200 stays the only status
\* ever written, whatever happens on the data plane.
C5_FailuresAnswered ==
    /\ (srv.pc = "returned" /\ ~tun.started /\ ~srv.respErr) =>
          /\ Len(srv.statuses) = 1
          /\ srv.statuses[1] \in ErrorStatuses
          /\ wire = Response(srv.statuses[1])
    /\ srv.respErr =>
          /\ ~tun.started
          /\ \A i \in 1..Len(srv.statuses) : srv.statuses[i] = StatusOK
          /\ wire = None
          /\ conns.upstream = "closed"
    /\ tun.started =>
          /\ srv.statuses = <<StatusOK>>
          /\ wire.code = StatusOK

C5_Witness ==
    /\ tun.started /\ tun.eng = "returned"
    /\ Len(tun.logged) = 2
    /\ srv.statuses = <<StatusOK>>

\* C6, as stated: the unified handler answers a non-CONNECT request 405
\* and routes a CONNECT request to the HTTP/1.1 handshake exactly when its
\* major version is 1, and to the HTTP/2 handshake for every other version.
C6_RoutesH1OnlyForMajor1 ==
    (Served /\ cfg.handler = "unified") =>
        IF NonConnect
        THEN srv.route = "reject" /\ srv.statuses = <<StatusMethodNotAllowed>>
        ELSE /\ srv.route = "h1" <=> req.ProtoMajor = 1
             /\ srv.route = "h2" <=> req.ProtoMajor # 1

\* C6, amended: the unified handler answers a non-CONNECT request 405
\* whatever its protocol, and routes a CONNECT request to the HTTP/2
\* handshake exactly when its major version is 2, and to the HTTP/1.1
\* handshake for every other major version.
C6_RoutesH2OnlyForMajor2 ==
    (Served /\ cfg.handler = "unified") =>
        IF NonConnect
        THEN /\ srv.route = "reject"
             /\ srv.statuses = <<StatusMethodNotAllowed>>
             /\ srv.pc = "returned"
        ELSE /\ srv.route = "h2" <=> req.ProtoMajor = 2
             /\ srv.route = "h1" <=> req.ProtoMajor # 2
             /\ (srv.route = "h1" /\ Len(srv.statuses) > 0) =>
                   srv.statuses[1] # StatusHTTPVersionNotSupported

C6_Witness ==
    /\ Served /\ cfg.handler = "unified" /\ ~NonConnect
    /\ req.ProtoMajor = 3 /\ srv.route = "h1" /\ srv.pc = "auth"

\* C7: the HTTP/2 handshake answers a request that is not HTTP/2 with 505,
\* an HTTP/2 request that is not CONNECT with 405, and an HTTP/2 CONNECT
\* with an empty authority with 400; in each case neither the authorization
\* callback nor the upstream dial function is invoked.
C7_H2Validation ==
    (Served /\ srv.route = "h2"
       /\ (req.ProtoMajor # 2 \/ NonConnect \/ req.Host = "")) =>
        /\ srv.pc = "returned"
        /\ srv.authCalls = 0 /\ srv.dialCalls = 0
        /\ conns.upstream = "none" /\ ~tun.started
        /\ srv.statuses =
              <<IF req.ProtoMajor # 2 THEN StatusHTTPVersionNotSupported
                ELSE IF NonConnect THEN StatusMethodNotAllowed
                ELSE StatusBadRequest>>

C7_Witness ==
    /\ Served /\ srv.route = "h2" /\ req.ProtoMajor # 2 /\ NonConnect
    /\ srv.statuses = <<StatusHTTPVersionNotSupported>>

\* C8, as stated: DialContext accepts a network only when it is tcp, tcp4
\* or tcp6; with any other network it returns an error without dialing,
\* sending a request or creating a pipe or connection.
C8_OnlyTcpNetworks ==
    (cli.pc # "idle" /\ cli.network \notin {NetTcp, NetTcp4, NetTcp6}) =>
        /\ ClientDone
        /\ ClientErr # NilErr /\ cli.result.conn = "nil"
        /\ cli.dialCalls = 0 /\ cli.requests = 0
        /\ cli.conn = "none" /\ cli.pr = "none" /\ cli.pw = "none"

\* C9: a non-200 response makes DialContext return a ProxyError carrying
\* the observed status code and status line; a failure to reach or talk to
\* the proxy makes it return an error that matches ErrProxyConnect; no
\* returned error matches both.
C9_ErrorKinds ==
    ClientDone =>
        /\ (cli.resp # None /\ cli.resp.code # StatusOK) =>
              /\ ClientErr = ProxyError(cli.resp.code, cli.resp.status)
              /\ cli.resp = wire
              /\ IsProxyError(ClientErr) /\ ~IsProxyConnect(ClientErr)
        /\ cli.failure \in {"dial", "write", "read", "headers", "roundtrip"} =>
              /\ cli.resp = None
              /\ IsProxyConnect(ClientErr) /\ ~IsProxyError(ClientErr)
        /\ ~(IsProxyError(ClientErr) /\ IsProxyConnect(ClientErr))

C9_Witness ==
    /\ ClientDone /\ cli.dialer = "h2" /\ cli.resp # None
    /\ cli.resp.code = StatusBadGateway /\ IsProxyError(ClientErr)

\* C10: DialContext returns a connection exactly when it returns no error,
\* which is exactly when it read a 200 response; on every other outcome it
\* returns no connection and has closed every resource it opened (the proxy
\* socket, both pipe ends, the response body).
C10_ConnIffNoError ==
    ClientDone =>
        /\ cli.result.conn # "nil" <=> ClientErr = NilErr
        /\ ClientErr = NilErr <=> (cli.resp # None /\ cli.resp.code = StatusOK)
        /\ ClientErr # NilErr =>
              /\ Released(cli.conn) /\ Released(cli.pr)
              /\ Released(cli.pw) /\ Released(cli.body)
        /\ ClientErr = NilErr =>
              IF cli.dialer = "h1" THEN cli.conn = "open"
              ELSE cli.pw = "open" /\ cli.body = "open"

C10_Witness ==
    /\ ClientDone /\ cli.dialer = "h1" /\ cli.failure = "status"
    /\ cli.conn = "closed"

\* The client-to-upstream direction has reached end-of-stream (io.Copy
\* returned nil) and has passed its CloseWrite step.
C2UAtEOF ==
    tun.started /\ tun.c2u.pc \in {"send", "done"} /\ tun.c2u.result = "nil"
\* The upstream-to-client direction is still relaying.
U2CRunning == tun.u2c.pc \in {"read", "write", "flush"}
\* The engine has left its waits and runs, or has run, its deferred closes.
EngReleasing == tun.eng \in {"closeUpstream", "closeClient", "returned"}
BothDelivered == tun.c2u.pc = "done" /\ tun.u2c.pc = "done"

\* C13, as stated: whenever the client-to-upstream direction has reached
\* end-of-stream and the other direction is still relaying, the write side
\* of upstream is closed and upstream itself is open.
C13_WriteSideClosedUpstreamOpen ==
    (C2UAtEOF /\ U2CRunning) =>
        (conns.upstream = "open" /\ conns.upstreamWriteClosed)

\* C13, amended: while the engine has not been cancelled and waits, once
\* the client-to-upstream direction has reached end-of-stream with the other
\* direction still relaying, upstream has not been closed, and its write
\* side is closed exactly when upstream is a TCP connection.
C13_HalfCloseOnly ==
    (C2UAtEOF /\ U2CRunning /\ tun.eng \in {"select", "wait2"}) =>
        /\ conns.upstream = "open"
        /\ conns.upstreamCloses = 0
        /\ conns.upstreamWriteClosed = conns.upstreamIsTCP

\* A tunnel whose client side ended, whose upstream write side is closed,
\* and whose other direction holds a chunk read from upstream to relay.
C13_Witness ==
    /\ C2UAtEOF /\ tun.c2u.pc = "done"
    /\ tun.eng = "wait2"
    /\ conns.upstreamWriteClosed /\ conns.upstream = "open"
    /\ tun.u2c.pc = "write" /\ tun.u2c.er = "nil"

\* C14, as stated: the engine never closes the endpoints while a copy
\* direction has not delivered its completion signal.
C14_ClosedOnlyAfterBoth == EngReleasing => BothDelivered

\* C14, amended: the engine closes the endpoints only after both directions
\* delivered their completion signals and it received both, except on the
\* HTTP/2 path when the request context was cancelled.
C14_ClosedAfterBothUnlessCancelled ==
    EngReleasing =>
        \/ BothDelivered /\ tun.errCh = <<>>
        \/ tun.route = "h2" /\ tun.ctx = "request" /\ srv.reqCtxDone

\* An engine that returned after both directions completed, uncancelled.
C14_Witness ==
    /\ tun.eng = "returned" /\ BothDelivered /\ ~srv.reqCtxDone
    /\ conns.upstream = "closed" /\ conns.client = "closed"

\* C15: when the engine has returned, by completion of both directions or
\* by cancellation, it has closed each of the two endpoints exactly once.
C15_ClosedExactlyOnce ==
    (tun.started /\ tun.eng = "returned") =>
        /\ conns.upstreamCloses = 1 /\ conns.upstream = "closed"
        /\ conns.clientCloses = 1 /\ conns.client = "closed"

\* An engine that returned by cancellation while a direction still ran.
C15_Witness ==
    /\ tun.eng = "returned" /\ srv.reqCtxDone /\ ~BothDelivered
    /\ conns.upstreamCloses = 1 /\ conns.clientCloses = 1

\* C16, as stated: on an endpoint a dialer returned, every read and every
\* write issued after a close returns an error.
C16_ErrorAfterClose ==
    (ep.kind \in {"bufferedConn", "streamConnRW"} /\ ep.closes > 0
        /\ ep.last.op \in {"read", "write"}) => ep.last.err # "nil"

C18_ClosesBothFirstError ==
    (ep.kind \in {"streamConnRW", "tunnelConn"} /\ ep.b.state # "absent"
        /\ ep.last.op = "close") =>
        /\ ep.a.closeCalls = ep.closes /\ ep.b.closeCalls = ep.closes
        /\ ep.a.state = "closed" /\ ep.b.state = "closed"
        /\ ep.last.err =
              (IF ep.last.err1 # "nil" THEN ep.last.err1 ELSE ep.last.err2)

\* An HTTP/2 endpoint whose reader failed to close: the writer was closed
\* all the same and the reader's error was returned.
C18_Witness ==
    /\ ep.kind = "streamConnRW" /\ ep.closes = 1 /\ ep.last.op = "close"
    /\ ep.last.err1 # "nil" /\ ep.last.err = ep.last.err1
    /\ ep.b.state = "closed" /\ ep.b.closeCalls = 1

\* C19: on an HTTP/2-backed endpoint every deadline setter returns nil and
\* changes nothing of the endpoint: its resources, bytes and counters are
\* as before the call, so later reads and writes behave as without it.
C19_DeadlineSettersNoEffect ==
    [][(ep.kind = "streamConnRW" /\ ep'.last.op = "setdeadline") =>
          /\ ep'.last.err = "nil"
          /\ ep'.a = ep.a /\ ep'.b = ep.b
          /\ ep'.sock = ep.sock /\ ep'.br = ep.br /\ ep'.got = ep.got
          /\ ep'.writes = ep.writes /\ ep'.closes = ep.closes]_vars

\* An HTTP/2 endpoint that delivered bytes to a read issued after a
\* deadline already passed was set.
C19_Witness ==
    /\ ep.kind = "streamConnRW" /\ ep.asked = "past"
    /\ ep.last.op = "read" /\ ep.last.n > 0 /\ ep.last.err = "nil"

InFlight(t) ==
    LET tn == relay.tn[t]
        a == AddrOf(t)
    IN tn.recv \o tn.br \o tn.s2c \o tn.u2cBuf \o relay.back[a]
          \o relay.up[a] \o tn.c2uBuf \o tn.c2s
IsPrefix(p, q) == Len(p) <= Len(q) /\ p = Take(q, Len(p))
NoTaskFailed(t) == relay.tn[t].c2u # "failed" /\ relay.tn[t].u2c # "failed"

\* C11: on each path (HTTP/1.1, HTTP/2, h2c) what a tunnel's target
\* received and what its client read back are prefixes of what the client
\* wrote; and while no copy task has failed, the bytes delivered and those
\* still on their way make up exactly the bytes written, in order: a client
\* that wrote N bytes and read N bytes back read exactly what it wrote.
C11_BytesExact ==
    relay.kind \in DialerKinds =>
        \A t \in Tunnels :
            /\ IsPrefix(relay.seen[AddrOf(t)], RelayPayload(t))
            /\ IsPrefix(relay.tn[t].recv, RelayPayload(t))
            /\ NoTaskFailed(t) =>
                  InFlight(t) = Take(RelayPayload(t), relay.tn[t].sent)
            /\ Len(relay.tn[t].recv) = RelayLen =>
                  relay.tn[t].recv = RelayPayload(t)

\* An HTTP/1.1 tunnel whose client read back all it wrote, relayed in
\* chunks of two bytes.
C11_Witness ==
    /\ relay.kind = "h1"
    /\ \E t \in Tunnels :
          /\ relay.tn[t].sent = RelayLen
          /\ relay.tn[t].recv = RelayPayload(t)
          /\ NoTaskFailed(t)

\* C12: with several tunnels open through one HTTP/2 dialer, every byte a
\* tunnel's target receives, every byte on its way back and every byte its
\* client reads was written on that same tunnel.
C12_NoCrossTalk ==
    relay.kind \in {"h2", "h2c"} =>
        \A t \in Tunnels :
            LET tn == relay.tn[t]
                mine == {RelayPayload(t)[i] : i \in 1..RelayLen}
                Within(q) == \A i \in 1..Len(q) : q[i] \in mine
            IN /\ Within(relay.seen[AddrOf(t)])
               /\ Within(relay.back[AddrOf(t)])
               /\ Within(tn.c2uBuf) /\ Within(tn.u2cBuf)
               /\ Within(tn.s2c) /\ Within(tn.recv)
               /\ tn.target \in {"", AddrOf(t)}

\* Two HTTP/2 tunnels whose bytes were on their way at the same time and
\* whose clients both read back their own bytes.
C12_Witness ==
    /\ relay.kind = "h2"
    /\ \A t \in Tunnels : relay.tn[t].recv = RelayPayload(t)
    /\ \A t \in Tunnels : relay.tn[t].phase = "open"

C25_RemoteAddrIsTarget ==
    (cli.pc = "done" /\ cli.dialer \in {"h2", "h2c"}
        /\ cli.result.err = NilErr) =>
        /\ cli.result.conn = "streamConnRW"
        /\ cli.result.remoteAddr = cli.address

\* An h2c dial of the second address that succeeded.
C25_Witness ==
    /\ cli.pc = "done" /\ cli.dialer = "h2c" /\ cli.result.err = NilErr
    /\ cli.address = "b:2" /\ cli.result.remoteAddr = "b:2"

\* C26, as stated: the remote address of every HTTP/2-backed endpoint
\* reports the network name "tunnel".
C26_NetworkIsTunnel ==
    (cli.pc = "done" /\ cli.result.conn = "streamConnRW") =>
        cli.result.network = "tunnel"

\* C26, amended: the remote address of every HTTP/2-backed endpoint
\* reports the network name "connecttunnel".
C26_NetworkIsConnecttunnel ==
    (cli.pc = "done" /\ cli.result.conn = "streamConnRW") =>
        cli.result.network = "connecttunnel"

\* An HTTP/2 dial that returned its endpoint.
C26_Witness ==
    /\ cli.pc = "done" /\ cli.dialer = "h2"
    /\ cli.result.conn = "streamConnRW"
    /\ cli.result.network = "connecttunnel"

\* C21: an HTTP/1.1 tunnel runs under a context that is not the request's:
\* whether or not the request context is done, its engine closes the
\* endpoints only after both directions completed, and until then neither
\* endpoint has been closed.
C21_H1TunnelIgnoresRequestContext ==
    (tun.started /\ tun.route = "h1") =>
        /\ tun.ctx # "request"
        /\ EngReleasing => (BothDelivered /\ tun.errCh = <<>>)
        /\ ~EngReleasing =>
              (conns.upstreamCloses = 0 /\ conns.clientCloses = 0
                 /\ conns.upstream = "open" /\ conns.client = "open")

\* An HTTP/1.1 tunnel still relaying upstream data although the request's
\* context is done and the other direction has completed.
C21_Witness ==
    /\ tun.started /\ tun.route = "h1" /\ srv.reqCtxDone
    /\ tun.eng = "wait2" /\ tun.u2c.pc = "write"
    /\ conns.upstream = "open" /\ conns.client = "open"

\* The request's processing is over: ServeHTTP has returned and, when it
\* started a tunnel, tunnel() has returned.
ProcessingEnded ==
    srv.pc = "returned" /\ (tun.started => tun.eng = "returned")

\* C24: when the upstream dial succeeded, the upstream connection is closed
\* once the request's processing has ended, whatever happened after the
\* dial.
C24_UpstreamNeverLeaked ==
    (srv.dialCalls > 0 /\ ~srv.dialErr /\ ProcessingEnded) =>
        (conns.upstream = "closed" /\ conns.upstreamCloses >= 1)

\* An HTTP/1.1 handshake that failed to flush its 200 after the hijack and
\* closed upstream without starting a tunnel.
C24_Witness ==
    /\ srv.route = "h1" /\ srv.respErr /\ srv.pc = "returned"
    /\ Len(srv.statuses) = 1 /\ ~tun.started
    /\ conns.upstream = "closed" /\ conns.client = "closed"

\* The state of the HTTP/1.1 handshake, by its place in the order
\* AwaitRequest (1), Validated (2), Authorized (3), UpstreamDialed (4),
\* Hijacked (5), Tunneling (6), and Closed or Rejected (7).
H1State(s, t) ==
    CASE s.pc = "idle" -> 1
      [] s.pc = "auth" -> 2
      [] s.pc = "dial" -> 3
      [] s.pc = "capability" -> 4
      [] s.pc \in {"write200", "flush200"} -> 5
      [] s.pc = "returned" /\ t.started /\ t.eng # "returned" -> 6
      [] OTHER -> 7

\* C28: every step of an HTTP/1.1 handshake stays in its state, moves to
\* the next state of the order, or ends the exchange; an error status is
\* written only from one of the first four states; and Tunneling is
\* entered only from Hijacked, after the callback accepted, the dial
\* succeeded and the hijack succeeded.
C28_H1StateOrder ==
    [][srv'.route = "h1" =>
          LET a == H1State(srv, tun)
              b == H1State(srv', tun')
          IN /\ b = a \/ b = a + 1 \/ b = 7
             /\ Len(srv'.statuses) > Len(srv.statuses) =>
                   \/ srv'.statuses[Len(srv'.statuses)] = StatusOK /\ a = 5
                   \/ a <= 4 /\ b = 7
             /\ (b = 6 /\ a # 6) =>
                   /\ a = 5
                   /\ ~srv.authErr /\ srv.dialCalls = 1 /\ ~srv.dialErr
                   /\ srv.capCalls = 1 /\ ~srv.capErr]_vars

\* An HTTP/1.1 exchange that went through every state to Closed.
C28_Witness ==
    /\ srv.route = "h1" /\ tun.started /\ tun.eng = "returned"
    /\ srv.authCalls = 1 /\ srv.dialCalls = 1 /\ srv.capCalls = 1

\* C27: when the token source fails while the local proxy handles a CONNECT
\* request, the local proxy answers that request with 407.
C27_TokenFailureAnswered407 ==
    (cli.handled /\ cli.failure = "headers") =>
        cli.localStatus = <<407>>

\* C22: a DialContext of dialer B, whose dial function is dialer A's
\* DialContext, sends its own CONNECT only over a tunnel that proxy A
\* accepted for proxy B's address; it returns a connection exactly when
\* both proxies answered 200; that connection reaches the target through
\* proxy A and then proxy B, and every byte written to it passes the two in
\* that order.
C22_ChainedDial ==
    (chain.cfgDial = "A") =>
        /\ chain.respB # 0 =>
              (chain.respA = StatusOK
                 /\ chain.seenA = <<[target |-> ProxyB, via |-> <<>>]>>
                 /\ chain.seenB = <<[target |-> chain.target,
                                     via |-> <<ProxyA>>]>>)
        /\ chain.pc = "done" =>
              /\ (chain.result.err = NilErr) <=>
                    (chain.respA = StatusOK /\ chain.respB = StatusOK)
              /\ chain.result.err = NilErr =>
                    chain.result.conn = <<ProxyA, ProxyB, chain.target>>
        /\ \A k \in 1..Len(chain.msgs) :
              IsPrefix(chain.msgs[k].hops, <<ProxyA, ProxyB, chain.target>>)

\* A chained dial succeeded and the bytes written to its connection reached
\* the target.
C22_Witness ==
    /\ chain.cfgDial = "A" /\ chain.pc = "done" /\ chain.result.err = NilErr
    /\ Len(chain.msgs) = ChainLen
    /\ chain.msgs[1].hops = <<ProxyA, ProxyB, chain.target>>

\* C29: once the engine waits for the second completion signal, it
\* eventually returns, whatever the peers of the two endpoints do.
C29_SecondWaitEnds == (tun.eng = "wait2") ~> (tun.eng = "returned")

\* The engine took the cancellation branch of its select.
CancelPath ==
    /\ tun.started /\ tun.ctx = "request" /\ srv.reqCtxDone
    /\ EngReleasing /\ ~(BothDelivered /\ tun.errCh = <<>>)

\* A copy task has ended: it delivered its result, or its goroutine
\* panicked.
TaskEnded(t) == t.pc \in {"done", "panicked"}

\* C30: an engine that took the cancellation branch eventually has returned
\* with both endpoints closed and both copy tasks ended.
C30_CancelReleasesTasks ==
    CancelPath ~>
        (/\ tun.eng = "returned"
         /\ conns.upstream = "closed" /\ conns.client = "closed"
         /\ TaskEnded(tun.c2u) /\ TaskEnded(tun.u2c))

\* The engine returned by cancellation while both tasks were still in a
\* read, and closed both endpoints.
C30_Witness ==
    /\ CancelPath /\ tun.eng = "returned"
    /\ tun.c2u.pc = "read" /\ tun.u2c.pc = "read"
    /\ conns.upstream = "closed" /\ conns.client = "closed"

C32_H2HeaderBeforeTunnel ==
    (srv.route = "h2") =>
        /\ tun.started =>
              /\ srv.statuses = <<StatusOK>> /\ ~srv.respErr
              /\ wire = Response(StatusOK)
        /\ (Len(srv.statuses) > 0 /\ srv.statuses[1] = StatusOK) =>
              /\ ~srv.authErr
              /\ cfg.OnTunnel = "set" => srv.authCalls = 1
              /\ srv.dialCalls = 1 /\ ~srv.dialErr
              /\ srv.capCalls = 1 /\ ~srv.capErr
        /\ ~tun.started =>
              (tun.c2u.pc = "idle" /\ tun.u2c.pc = "idle")

\* An HTTP/2 tunnel whose upstream-to-client task has read its first bytes,
\* after the flushed 200.
C32_Witness ==
    /\ srv.route = "h2" /\ tun.started /\ tun.u2c.pc = "write"
    /\ cfg.OnTunnel = "set" /\ wire = Response(StatusOK)

\* C33: on the HTTP/2 path every write of upstream data to the response
\* writer is followed by a flush: the upstream-to-client task leaves its
\* write step only into its flush step.
C33_FlushAfterEveryWrite ==
    [][(tun.route = "h2" /\ tun.u2c.pc = "write" /\ tun'.u2c.pc # "write")
          => tun'.u2c.pc = "flush"]_vars

\* C34: a copy task whose write accepted fewer bytes than were read, with no
\* error, ends with the short-write error: it is at the flush that follows
\* the write, or it has ended with that result; it never reads again.
C34_ShortWriteEndsTask ==
    \A t \in {tun.c2u, tun.u2c} :
        /\ t.short =>
              \/ t.pc = "flush" /\ t.wres = "short"
              \/ t.result = "short write"
                    /\ t.pc \in {"closewrite", "send", "done"}
        /\ t.result = "short write" => t.short

\* An HTTP/2 tunnel whose upstream-to-client task wrote short, flushed and
\* delivered the short-write error, which the engine logged.
C34_Witness ==
    /\ tun.route = "h2" /\ tun.flusher
    /\ tun.u2c.short /\ tun.u2c.pc = "done"
    /\ tun.u2c.result = "short write"
    /\ \E i \in 1..Len(tun.logged) : tun.logged[i] = "short write"

\* The terminal results of the two copy tasks that are errors to report.
ReportableResults ==
    {k \in {"c2u", "u2c"} :
        (IF k = "c2u" THEN tun.c2u.result ELSE tun.u2c.result)
            \notin {"nil", "EOF"}}

\* C35: the engine never logs nil or end-of-stream; once it has received
\* both results it has logged exactly one entry per result that is neither,
\* so none when both directions ended with end-of-stream; on the
\* cancellation branch it logs nothing.
C35_EOFNeverLogged ==
    tun.started =>
        /\ \A i \in 1..Len(tun.logged) : tun.logged[i] \notin {"nil", "EOF"}
        /\ (EngReleasing /\ BothDelivered /\ tun.errCh = <<>>) =>
              /\ Len(tun.logged) = Cardinality(ReportableResults)
              /\ \A k \in ReportableResults :
                    \E i \in 1..Len(tun.logged) :
                       tun.logged[i] = (IF k = "c2u" THEN tun.c2u.result
                                        ELSE tun.u2c.result)
        /\ CancelPath => tun.logged = <<>>

\* An HTTP/2 tunnel whose upstream ended with io.EOF and whose client ended
\* its body: the engine returned and logged nothing.
C35_Witness ==
    /\ tun.route = "h2" /\ tun.eng = "returned" /\ BothDelivered
    /\ tun.u2c.result = "EOF" /\ tun.c2u.result = "nil"
    /\ tun.logged = <<>>

\* C36: while an HTTP/2 tunnel's engine has not returned, ServeHTTP has not
\* returned either, and when it has returned after a tunnel, both
\* directions had completed or the request context was cancelled; an
\* HTTP/1.1 ServeHTTP has returned as soon as its tunnel exists.
C36_H2HandlerStaysForTunnel ==
    tun.started =>
        /\ tun.route = "h2" =>
              /\ tun.eng # "returned" => srv.pc = "tunnel"
              /\ srv.pc = "returned" =>
                    /\ tun.eng = "returned"
                    /\ \/ BothDelivered /\ tun.errCh = <<>>
                       \/ srv.reqCtxDone
        /\ tun.route = "h1" => srv.pc = "returned"

\* An HTTP/2 ServeHTTP that returned after both directions completed,
\* with the request context not cancelled.
C36_Witness ==
    /\ tun.started /\ tun.route = "h2" /\ srv.pc = "returned"
    /\ BothDelivered /\ ~srv.reqCtxDone

\* C38: on the HTTP/2 path, after ServeHTTP has returned no copy task takes
\* a step that writes to or flushes the response writer or reads the
\* request body.
C38_NoResponseUseAfterReturn ==
    [][~(/\ tun.route = "h2" /\ srv.pc = "returned"
         /\ \/ tun.u2c.pc \in {"write", "flush"} /\ tun'.u2c # tun.u2c
            \/ tun.c2u.pc = "read" /\ tun'.c2u # tun.c2u)]_vars

\* C37: the caller's TLS configuration and header keep the values the
\* dialer was built with; a DialContext call writes only to objects it
\* created itself; and two calls never use the same object unless it is the
\* caller's, which no call writes.
C37_ConfigNeverMutated ==
    /\ dcfg.objs[CfgTLS] = dcfg.given.tls
    /\ dcfg.objs[CfgHeader] = dcfg.given.hdr
    /\ \A w \in dcfg.writes : w.obj.o = w.by
    /\ \A c1 \in Calls, c2 \in Calls :
          (c1 # c2 /\ dcfg.calls[c1].tls # NoObj
                   /\ dcfg.calls[c1].tls = dcfg.calls[c2].tls) =>
              /\ dcfg.calls[c1].tls = CfgTLS
              /\ \A w \in dcfg.writes : w.obj # CfgTLS

\* Two HTTP/1.1 DialContext calls over TLS with a caller's configuration
\* that names no server: each used its own clone with the proxy's name.
C37_Witness ==
    /\ dcfg.kind = "h1" /\ dcfg.useTLS /\ dcfg.given.tls = ""
    /\ \A c \in Calls :
          /\ dcfg.calls[c].pc = "done"
          /\ dcfg.calls[c].tls = Own(c, "tls")
          /\ dcfg.objs[Own(c, "tls")] = ProxyHostName
    /\ dcfg.objs[CfgTLS] = ""

\* The request is a CONNECT that names a target for the handshake it was
\* routed to.
MethodAndTargetPassed ==
    /\ req # None /\ req.Method = MethodConnect
    /\ srv.route \in {"h1", "h2"}
    /\ Target(srv.route, req) # ""
    /\ srv.route = "h1" => Target(srv.route, req) # "/"

\* C39: the authorization callback and the upstream dial are each invoked
\* at most once per request; the callback only for a request whose method
\* and target passed the checks; the dial only after the callback (when
\* configured) was invoked and accepted, and with the request's target.
C39_CallbackOnceBeforeDial ==
    /\ srv.authCalls <= 1 /\ srv.dialCalls <= 1
    /\ srv.authCalls = 1 => (MethodAndTargetPassed /\ cfg.OnTunnel = "set")
    /\ srv.authCalls = 1 /\ srv.authErr => srv.dialCalls = 0
    /\ srv.dialCalls = 1 =>
          /\ MethodAndTargetPassed
          /\ cfg.OnTunnel = "set" => (srv.authCalls = 1 /\ ~srv.authErr)
          /\ srv.dialTargets = <<Target(srv.route, req)>>

\* An HTTP/2 request whose callback accepted and whose dial was made.
C39_Witness ==
    /\ srv.route = "h2" /\ cfg.OnTunnel = "set"
    /\ srv.authCalls = 1 /\ srv.dialCalls = 1
    /\ srv.dialTargets = <<req.Host>>

=============================================================================
